---- MODULE Spec2Model ----
(***************************************************************************)
(* Session / token lifecycle of singlebase-js: the AuthClient               *)
(* (src/src/AuthClient.ts) with the reactive store and the storage wrapper  *)
(* of src/src/lib.ts.                                                       *)
(*                                                                          *)
(* One step of the model is one run-to-completion task of the JavaScript    *)
(* event loop: a call made by the application, the continuation that runs   *)
(* when a dispatch answers, a timer tick or a storage event, each taken up  *)
(* to the next await of a remote dispatch (the microtasks it queues         *)
(* included).  The dispatcher is the injected collaborator: it answers      *)
(* ok:true with some data, ok:false, or throws.                             *)
(***************************************************************************)
EXTENDS Integers, Sequences, FiniteSets, Bags, TLC

(* ------------------------------ bounds -------------------------------- *)
\* calls of one client suspended at a dispatch at the same time (application
\* calls, tick and event callbacks)
MaxCalls == 2
\* how many times the clock advances
MaxAdvance == 1
\* storage events queued for one tab
MaxEvents == 1
\* stimuli after construction: calls the application makes and writes of the
\* shared item by a sibling tab
MaxStimuli == 3

(* ------------------------- program constants -------------------------- *)
\* AuthClient.ts:30  60 * 1000 ms
AUTO_REFRESH_TICK_DURATION == 60000
\* AuthClient.ts:32  seconds
EXPIRY_MARGIN == 60

(* ------------------------------ values -------------------------------- *)
Tabs == {"A", "B"}

\* Date.now() at construction (ms): 1000 s, advancing one timer period at a time
StartTime == 1000 * 1000
ClockStep == AUTO_REFRESH_TICK_DURATION
EndTime == StartTime + MaxAdvance * ClockStep

\* token_info.exp values (seconds): valid at StartTime and within the margin one
\* period later, valid during the whole run
ExpSoon == 1000 + EXPIRY_MARGIN + 40
ExpLate == 1000 * 1000

\* A JavaScript record of the session: absent fields are the falsy value of
\* their type ("" or 0); nil marks null/undefined itself.
Nil == [nil |-> TRUE, id |-> "", rt |-> "", exp |-> 0, up |-> "", aud |-> "", rev |-> 0]

Data(id, rt, exp, up, aud) ==
  [nil |-> FALSE, id |-> id, rt |-> rt, exp |-> exp, up |-> up, aud |-> aud, rev |-> 0]

\* resp.data of an ok:true answer
RespSoon == Data("i1", "r1", ExpSoon, "u1", "a1")
RespLate == Data("i2", "", ExpLate, "u2", "a2")
RespProfile == Data("", "", 0, "u3", "")
Responses == {RespSoon, RespLate, RespProfile}

Nonces == {"", "n1"}
ObserverIds == {"o1", "o2"}

\* dispatcher outcomes
Answers == {"ok", "fail", "throw"}

(* ------------------------------ state --------------------------------- *)
VARIABLES
  now,          \* Date.now(), ms
  store,        \* the localStorage item of the namespace: [token, nonce]
  state,        \* per tab: the reactive target {user_profile, token}
  observers,    \* per tab: the observers array of the reactive state
  ticker,       \* per tab: _autoRefreshTicker holds a handle
  timers,       \* per tab: interval timers that are live in the window
  inProgress,   \* per tab: _refreshInProgress
  failed,       \* per tab: _refreshFailed
  initialized,  \* per tab: _initialized
  listeners,    \* per tab: 'storage' listeners added to the window
  procs,        \* per tab: the async calls in flight, each awaiting a dispatch
  events,       \* per tab: storage events queued for the window
  made,         \* stimuli so far (bounded by MaxStimuli)
  valid         \* the value _isTokenValid returned for the record under test, if any

vars == <<now, store, state, observers, ticker, timers, inProgress, failed,
          initialized, listeners, procs, events, made, valid>>

(* -------------------------- lib.ts: results --------------------------- *)
\* a possibly-undefined value: <<>> for null/undefined
Val(x) == IF x = "" THEN <<>> ELSE <<x>>

AuthResultOk(data) == [ok |-> TRUE, data |-> data, error |-> ""]

AuthResultErr(error) == [ok |-> FALSE, data |-> <<>>, error |-> error]

\* a plain return value (boolean in ok, or a string in data) in the same shape
Ret(ok, data) == [ok |-> ok, data |-> data, error |-> ""]

(* ---------------------- lib.ts: useReactiveState ---------------------- *)
\* deep copy of a plain value: values of the model are structural
copy(obj) == obj

\* the observers each get one call (value, prev, target), in array order
Notify(obs, value, prev, target) ==
  [i \in 1..Len(obs) |-> [observer |-> obs[i], value |-> value, prev |-> prev, target |-> target]]

\* a mutated set trap: a patch notifies once per key it writes
ProxySetPerKey(m, property, value) ==
  LET prev == copy(m.state)
      half == [m.state EXCEPT !.user_profile = value.user_profile]
      target == [half EXCEPT !.token = value.token]
  IN [m EXCEPT !.state = target,
               !.calls = @ \o Notify(m.observers, value, prev, half)
                           \o Notify(m.observers, value, prev, target),
               !.patches = @ + 1]

\* the proxy's set trap on the working context m
ProxySet(m, property, value) ==
  LET prev == copy(m.state)
      target == IF property = "__patch__"
                THEN [k \in DOMAIN m.state |-> IF k \in DOMAIN value THEN value[k] ELSE m.state[k]]
                ELSE [m.state EXCEPT ![property] = value]
  IN [m EXCEPT !.state = target,
               !.calls = @ \o Notify(m.observers, value, prev, target),
               !.patches = @ + 1]

(* ------------- AuthClient.ts: onStateChanged, onAuthStateChanged ------ *)
\* the observer that onAuthStateChanged registers: the profiles it hands to the
\* callback on one notification (changes, prev)
AuthStateObserver(changes, prev) ==
  IF changes.token.id # prev.token.id THEN <<copy(changes.user_profile)>> ELSE <<>>

\* onAuthStateChanged(callback): cbs are the callback's invocations during the
\* call; the observer is subscribed under the name cb
onAuthStateChanged(m, cb) ==
  [m |-> [m EXCEPT !.observers = Append(@, cb)], cbs |-> <<copy(m.state.user_profile)>>]

(* ------------------------- lib.ts: memcache --------------------------- *)
\* set(key, data): the entry [0, data] of the namespace object
StorageSetToken(m, data) == [m EXCEPT !.store.token = data]

StorageSetNonce(m, nonce) == [m EXCEPT !.store.nonce = nonce]

\* get(key): entries are written with ttl 0 and never expire
StorageGetToken(m) == m.store.token

StorageGetNonce(m) == m.store.nonce

\* remove(key)
StorageRemoveToken(m) == [m EXCEPT !.store.token = Nil]

(* ------------------- AuthClient.ts: private methods ------------------- *)
_getCachedToken(m) == StorageGetToken(m)

_getToken(m) == _getCachedToken(m)

_purgeCacheKeep(m) == m

_purgeCache(m) == StorageRemoveToken(m)

\* a mutated validity test that forgets the expiry margin
_isTokenValidNoMargin(m, token) ==
  LET currentToken == IF token.nil THEN _getToken(m) ELSE token
  IN currentToken.id # "" /\ currentToken.exp # 0
     /\ currentToken.exp * 1000 > m.now

\* a mutated validity test that admits the instant of the margin itself
_isTokenValidInclusive(m, token) ==
  LET currentToken == IF token.nil THEN _getToken(m) ELSE token
  IN currentToken.id # "" /\ currentToken.exp # 0
     /\ currentToken.exp * 1000 - EXPIRY_MARGIN * 1000 >= m.now

_isTokenValid(m, token) ==
  LET currentToken == IF token.nil THEN _getToken(m) ELSE token
  IN currentToken.id # "" /\ currentToken.exp # 0
     /\ currentToken.exp * 1000 - EXPIRY_MARGIN * 1000 > m.now

isAuthenticated(m) == m.state.token.id # "" /\ _isTokenValid(m, m.state.token)

_stopAutoRefreshToken(m) ==
  IF m.ticker THEN [m EXCEPT !.timers = @ - 1, !.ticker = FALSE] ELSE m

\* _startAutoRefreshToken up to its await: `await this._stopAutoRefreshToken()`
_startAutoRefreshTokenCall(m) == _stopAutoRefreshToken(m)

\* _startAutoRefreshToken after the await: the handle of a new interval is
\* assigned to _autoRefreshTicker, over whatever it holds
_startAutoRefreshTokenResume(m) == [m EXCEPT !.timers = @ + 1, !.ticker = TRUE]

\* a mutated start that clears the running interval and sets none
_startAutoRefreshTokenNoArm(m) == _stopAutoRefreshToken(m)

_startAutoRefreshToken(m) ==
  LET s == _stopAutoRefreshToken(m)
  IN [s EXCEPT !.timers = @ + 1, !.ticker = TRUE]

_setState(m, respData) ==
  ProxySet(m, "__patch__", [user_profile |-> respData.up, token |-> respData])

_clearStateTokenOnly(m) ==
  ProxySet(_stopAutoRefreshToken(m), "token", Nil)

_clearState(m) ==
  ProxySet(_stopAutoRefreshToken(m), "__patch__", [user_profile |-> "", token |-> Nil])

\* a mutated _setAuthData that does not persist the record
_setAuthDataNoStore(m, respData) ==
  LET s1 == _stopAutoRefreshToken(m)
      s2 == _setState(s1, [respData EXCEPT !.nil = FALSE])
  IN _startAutoRefreshToken(s2)

\* a mutated _setAuthData that merges the response into the stored record
_setAuthDataMerge(m, respData) ==
  LET old == _getToken(m)
      keep(f) == IF respData[f] = "" THEN old[f] ELSE respData[f]
      merged == [respData EXCEPT !.nil = FALSE, !.rt = keep("rt"), !.id = keep("id")]
      s1 == _stopAutoRefreshToken(m)
      s2 == _setState(s1, merged)
      s3 == StorageSetToken(s2, [merged EXCEPT !.rev = m.now])
  IN _startAutoRefreshToken(s3)

\* {...respData} into the state, {...respData, _rev: now} into the cache (the
\* expires_at and created_at added to the state's copy are never read)
_setAuthData(m, respData) ==
  LET s1 == _stopAutoRefreshToken(m)
      s2 == _setState(s1, [respData EXCEPT !.nil = FALSE])
      s3 == StorageSetToken(s2, [respData EXCEPT !.nil = FALSE, !.rev = m.now])
  IN _startAutoRefreshToken(s3)

\* _setAuthData up to the end of `this._setState(data)`: what the observers find
\* when the set trap notifies them
_setAuthDataNotify(m, respData) ==
  LET s1 == _stopAutoRefreshToken(m)
  IN _setState(s1, [respData EXCEPT !.nil = FALSE])

\* _setAuthData up to the await inside the _startAutoRefreshToken it calls
_setAuthDataCall(m, respData) ==
  LET s1 == _stopAutoRefreshToken(m)
      s2 == _setState(s1, [respData EXCEPT !.nil = FALSE])
      s3 == StorageSetToken(s2, [respData EXCEPT !.nil = FALSE, !.rev = m.now])
  IN _startAutoRefreshTokenCall(s3)

(* --------------------- calls, dispatches, outcomes -------------------- *)
\* _dispatch(payload): the payload is recorded; the call then awaits the answer
Send(m, action, id, rt, aud) ==
  [m EXCEPT !.sent = Append(@, [action |-> action, id |-> id, rt |-> rt, aud |-> aud])]

\* the call is suspended awaiting the answer to `pc`
Await(m, pc) == [m |-> m, pc |-> pc, done |-> FALSE, ret |-> Ret(FALSE, <<>>)]

\* the call has resolved to ret
Resolve(m, ret) == [m |-> m, pc |-> "", done |-> TRUE, ret |-> ret]

(* --------------------- AuthClient.ts: _refreshToken ------------------- *)
\* a mutated entry that sends whatever tokens it is given
_refreshTokenCallNoCheck(m, refresh_token, id_token) ==
  IF m.inProgress THEN [m |-> m, susp |-> FALSE]
  ELSE [m |-> Send([m EXCEPT !.inProgress = TRUE], "auth.refresh_token", id_token, refresh_token, ""),
        susp |-> TRUE]

\* a mutated entry that ignores the in-flight flag
_refreshTokenCallNoGuard(m, refresh_token, id_token) ==
  IF refresh_token = "" \/ id_token = "" THEN [m |-> m, susp |-> FALSE]
  ELSE [m |-> Send([m EXCEPT !.inProgress = TRUE], "auth.refresh_token", id_token, refresh_token, ""),
        susp |-> TRUE]

\* up to the await of the dispatch: susp is FALSE when it returned false at once
_refreshTokenCall(m, refresh_token, id_token) ==
  IF refresh_token = "" \/ id_token = "" THEN [m |-> m, susp |-> FALSE]
  ELSE IF m.inProgress THEN [m |-> m, susp |-> FALSE]
  ELSE [m |-> Send([m EXCEPT !.inProgress = TRUE], "auth.refresh_token", id_token, refresh_token, ""),
        susp |-> TRUE]

\* a mutated continuation that clears the session when the refresh fails
_refreshTokenResumeLogout(m, ans, data) ==
  IF ans = "ok"
  THEN [m |-> [_setAuthData(m, data) EXCEPT !.failed = FALSE, !.inProgress = FALSE], ok |-> TRUE]
  ELSE [m |-> [_purgeCache(_clearState(m)) EXCEPT !.failed = TRUE, !.inProgress = FALSE], ok |-> FALSE]

\* a mutated continuation without the finally block when the dispatch throws
_refreshTokenResumeNoFinally(m, ans, data) ==
  IF ans = "ok"
  THEN [m |-> [_setAuthData(m, data) EXCEPT !.failed = FALSE, !.inProgress = FALSE], ok |-> TRUE]
  ELSE [m |-> [m EXCEPT !.failed = TRUE, !.inProgress = (ans = "throw")], ok |-> FALSE]

\* from the answer to the return, the finally block included
_refreshTokenResume(m, ans, data) ==
  IF ans = "ok"
  THEN [m |-> [_setAuthData(m, data) EXCEPT !.failed = FALSE, !.inProgress = FALSE], ok |-> TRUE]
  ELSE [m |-> [m EXCEPT !.failed = TRUE, !.inProgress = FALSE], ok |-> FALSE]

(* ---------------------- AuthClient.ts: getIdToken --------------------- *)
\* a mutated getIdToken that never refreshes
getIdTokenCallNoRefresh(m, refresh) ==
  LET token == _getToken(m)
  IN IF ~token.nil /\ _isTokenValid(m, token)
     THEN [m |-> m, susp |-> FALSE, val |-> token.id]
     ELSE [m |-> m, susp |-> FALSE, val |-> ""]

\* up to the await of _refreshToken: val is the value returned when not suspended
getIdTokenCall(m, refresh) ==
  LET token == _getToken(m)
  IN IF ~token.nil /\ _isTokenValid(m, token)
     THEN [m |-> m, susp |-> FALSE, val |-> token.id]
     ELSE IF ~token.nil /\ refresh /\ token.rt # ""
     THEN LET r == _refreshTokenCall(m, token.rt, token.id)
          IN [m |-> r.m, susp |-> r.susp, val |-> ""]
     ELSE [m |-> m, susp |-> FALSE, val |-> ""]

\* a mutated continuation that returns the refreshed id_token unchecked
getIdTokenResumeTrust(m, ok) ==
  IF ok THEN _getToken(m).id ELSE ""

\* after _refreshToken returned ok: return await this.getIdToken(false)
getIdTokenResume(m, ok) ==
  IF ok THEN getIdTokenCall(m, FALSE).val ELSE ""

(* -------------------- AuthClient.ts: _loadFromCache ------------------- *)
\* a mutated load that leaves the state alone when the cache holds no record
_loadFromCacheCallKeep(m) ==
  LET token == _getCachedToken(m)
  IN IF token.nil THEN [m |-> m, susp |-> FALSE, val |-> FALSE]
     ELSE IF _isTokenValid(m, token) THEN [m |-> _setState(m, token), susp |-> FALSE, val |-> TRUE]
     ELSE IF token.rt # ""
     THEN LET r == _refreshTokenCall(m, token.rt, token.id)
          IN [m |-> r.m, susp |-> r.susp, val |-> FALSE]
     ELSE [m |-> m, susp |-> FALSE, val |-> FALSE]

_loadFromCacheCall(m) ==
  LET token == _getCachedToken(m)
  IN IF token.nil THEN [m |-> _clearState(m), susp |-> FALSE, val |-> FALSE]
     ELSE IF _isTokenValid(m, token) THEN [m |-> _setState(m, token), susp |-> FALSE, val |-> TRUE]
     ELSE IF token.rt # ""
     THEN LET r == _refreshTokenCall(m, token.rt, token.id)
          IN [m |-> r.m, susp |-> r.susp, val |-> FALSE]
     ELSE [m |-> m, susp |-> FALSE, val |-> FALSE]

(* ------------- what the caller does with a sub-call's value ----------- *)
\* updateProfile from `const idToken = await this.getIdToken()` on
updateProfileAfterIdToken(m, idToken) ==
  LET token == _getToken(m)
  IN IF idToken = "" THEN Resolve(m, AuthResultErr("Invalid or missing ID token."))
     ELSE IF token.nil THEN Resolve(m, AuthResultErr("Missing token."))
     ELSE Await(Send(m, "auth.update_profile", token.id, token.rt, token.aud), "auth.update_profile")

\* a mutated getUser that returns the profile whatever getIdToken resolved to
getUserAfterIdTokenAny(m, idToken) ==
  Resolve(m, Ret(idToken # "", Val(m.state.user_profile)))

\* getUser from `if (await this.getIdToken())` on
getUserAfterIdToken(m, idToken) ==
  Resolve(m, Ret(idToken # "", Val(IF idToken # "" THEN m.state.user_profile ELSE "")))

\* the callers of getIdToken(true), from its value on
AfterIdToken(m, op, idToken) ==
  CASE op = "updateProfile" -> updateProfileAfterIdToken(m, idToken)
    [] op = "getUser" -> getUserAfterIdToken(m, idToken)
    [] OTHER -> Resolve(m, Ret(idToken # "", Val(idToken)))

\* initialize from `await this._loadFromCache()` on (autoRefreshToken is true)
initializeAfterLoad(m) ==
  Resolve([_startAutoRefreshToken(m) EXCEPT !.initialized = TRUE], Ret(TRUE, <<>>))

\* the callers of _loadFromCache, from its value on
AfterLoad(m, op, loaded) ==
  IF op = "initialize" THEN initializeAfterLoad(m) ELSE Resolve(m, Ret(loaded, <<>>))

\* a call suspended in _refreshToken, from its value on
AfterRefresh(m, op, ok) ==
  CASE op \in {"initialize", "storageEvent", "refreshAuthState"} -> AfterLoad(m, op, ok)
    [] op = "refreshSession" ->
         LET v == IF ok THEN getIdTokenCall(m, FALSE).val ELSE ""
         IN Resolve(m, Ret(v # "", Val(v)))
    [] OTHER -> AfterIdToken(m, op, getIdTokenResume(m, ok))

(* -------------------- AuthClient.ts: public methods ------------------- *)
\* each method up to its first await of a dispatch
initializeCall(m) ==
  IF m.initialized THEN Resolve(m, Ret(TRUE, <<>>))
  ELSE Await(Send(m, "auth.settings", "", "", ""), "auth.settings")

updateAccountCall(m) == Await(Send(m, "auth.update_account", "", "", ""), "auth.update_account")

updateProfileCall(m) ==
  LET g == getIdTokenCall(m, TRUE)
  IN IF g.susp THEN Await(g.m, "auth.refresh_token") ELSE updateProfileAfterIdToken(g.m, g.val)

sendOTPCall(m) == Await(Send(m, "auth.send_otp", "", "", ""), "auth.send_otp")

signUpWithPasswordCall(m) == Await(Send(_clearState(m), "auth.signup", "", "", ""), "auth.signup")

signInWithPasswordCall(m) == Await(Send(_clearState(m), "auth.signin", "", "", ""), "auth.signin")

signInWithOAuthCall(m) == Await(Send(_clearState(m), "auth.nonce", "", "", ""), "auth.nonce")

\* a mutated entry that reports a missing nonce and leaves the session alone
signInWithOAuthAccessCodeCallKeep(m, nonce) ==
  LET s == _stopAutoRefreshToken(m)
      n == IF nonce = "" THEN StorageGetNonce(s) ELSE nonce
      token == _getToken(s)
  IN IF n = "" THEN Resolve(s, AuthResultErr("Missing nonce."))
     ELSE IF token.nil THEN Resolve(_purgeCache(_clearState(s)), AuthResultErr("Missing token."))
     ELSE Await(Send(s, "auth.signin", token.id, token.rt, ""), "auth.signin")

\* nonce is the explicit argument ("" when omitted)
signInWithOAuthAccessCodeCall(m, nonce) ==
  LET s == _stopAutoRefreshToken(m)
      n == IF nonce = "" THEN StorageGetNonce(s) ELSE nonce
      token == _getToken(s)
  IN IF n = "" THEN Resolve(_purgeCache(_clearState(s)), AuthResultErr("Missing nonce."))
     ELSE IF token.nil THEN Resolve(_purgeCache(_clearState(s)), AuthResultErr("Missing token."))
     ELSE Await(Send(s, "auth.signin", token.id, token.rt, ""), "auth.signin")

signOutCall(m) ==
  LET g == getIdTokenCall(m, FALSE)
      token == _getToken(m)
  IN IF g.val # ""
     THEN IF token.nil THEN Resolve(_purgeCache(_clearState(m)), Ret(FALSE, <<>>))
          ELSE Await(Send(m, "auth.signout", token.id, "", token.aud), "auth.signout")
     ELSE Resolve(_purgeCache(_clearState(m)), Ret(TRUE, <<>>))

getUserCall(m) ==
  LET g == getIdTokenCall(m, TRUE)
  IN IF g.susp THEN Await(g.m, "auth.refresh_token") ELSE getUserAfterIdToken(g.m, g.val)

getNonceCall(m) == Await(Send(m, "auth.nonce", "", "", ""), "auth.nonce")

getIdTokenOp(m, refresh) ==
  LET g == getIdTokenCall(m, refresh)
  IN IF g.susp THEN Await(g.m, "auth.refresh_token")
     ELSE Resolve(g.m, Ret(g.val # "", Val(g.val)))

refreshSessionCall(m) ==
  LET token == _getToken(m)
      r == _refreshTokenCall(m, token.rt, token.id)
  IN IF ~token.nil /\ token.rt # "" /\ token.id # "" /\ r.susp
     THEN Await(r.m, "auth.refresh_token")
     ELSE Resolve(m, Ret(FALSE, <<>>))

loadSettingsCall(m) == Await(Send(m, "auth.settings", "", "", ""), "auth.settings")

refreshAuthStateCall(m, op) ==
  LET l == _loadFromCacheCall(m)
  IN IF l.susp THEN Await(l.m, "auth.refresh_token") ELSE AfterLoad(l.m, op, l.val)

\* the operations the application calls, and their argument where they take one
AppOps ==
  {"initialize", "updateAccount", "updateProfile", "sendOTP", "signUpWithPassword",
   "signInWithPassword", "signInWithOAuth", "signInWithOAuthAccessCode", "signOut",
   "getUser", "getNonce", "getIdToken", "refreshSession", "loadSettings", "refreshAuthState"}

\* arg: the explicit nonce of signInWithOAuthAccessCode, the refresh flag of getIdToken
OpArgs(op) ==
  CASE op = "signInWithOAuthAccessCode" -> Nonces
    [] op = "getIdToken" -> {"true", "false"}
    [] OTHER -> {""}

OpCall(m, op, arg) ==
  CASE op = "initialize" -> initializeCall(m)
    [] op = "updateAccount" -> updateAccountCall(m)
    [] op = "updateProfile" -> updateProfileCall(m)
    [] op = "sendOTP" -> sendOTPCall(m)
    [] op = "signUpWithPassword" -> signUpWithPasswordCall(m)
    [] op = "signInWithPassword" -> signInWithPasswordCall(m)
    [] op = "signInWithOAuth" -> signInWithOAuthCall(m)
    [] op = "signInWithOAuthAccessCode" -> signInWithOAuthAccessCodeCall(m, arg)
    [] op = "signOut" -> signOutCall(m)
    [] op = "getUser" -> getUserCall(m)
    [] op = "getNonce" -> getNonceCall(m)
    [] op = "getIdToken" -> getIdTokenOp(m, arg = "true")
    [] op = "refreshSession" -> refreshSessionCall(m)
    [] op = "loadSettings" -> loadSettingsCall(m)
    [] op = "refreshAuthState" -> refreshAuthStateCall(m, op)

(* ---------------- continuations: from the answer onwards -------------- *)
\* loadSettings: settings = resp.data on ok, null otherwise; the client never
\* reads settings, which is no part of the context
loadSettingsResume(m, ans) == m

initializeResume(m, ans) ==
  LET s1 == loadSettingsResume(m, ans)
      s2 == [s1 EXCEPT !.listeners = @ + 1]
      l == _loadFromCacheCall(s2)
  IN IF l.susp THEN Await(l.m, "auth.refresh_token") ELSE initializeAfterLoad(l.m)

\* a mutated continuation that signs the client out when the update is refused
updateResumeClear(m, ans, data) ==
  CASE ans = "ok" -> Resolve(_setAuthData(m, data), AuthResultOk(Val(data.up)))
    [] ans = "fail" -> Resolve(_purgeCache(_clearState(m)), AuthResultErr("error"))
    [] OTHER -> Resolve(m, AuthResultErr("exception"))

updateResume(m, ans, data) ==
  CASE ans = "ok" -> Resolve(_setAuthData(m, data), AuthResultOk(Val(data.up)))
    [] ans = "fail" -> Resolve(m, AuthResultErr("error"))
    [] OTHER -> Resolve(m, AuthResultErr("exception"))

\* a mutated continuation without the catch: the exception leaves the call
sendOTPResumeNoCatch(m, ans) ==
  CASE ans = "ok" -> Resolve(m, AuthResultOk(<<"true">>))
    [] ans = "fail" -> Resolve(m, AuthResultErr("error"))
    [] OTHER -> [m |-> m, pc |-> "", done |-> TRUE, ret |-> [rejected |-> "exception"]]

sendOTPResume(m, ans) ==
  CASE ans = "ok" -> Resolve(m, AuthResultOk(<<"true">>))
    [] ans = "fail" -> Resolve(m, AuthResultErr("error"))
    [] OTHER -> Resolve(m, AuthResultErr("exception"))

\* a mutated continuation that stores the response as sign-in does
signUpWithPasswordResumeStore(m, ans, data) ==
  CASE ans = "ok" -> Resolve(_setAuthData(m, data), AuthResultOk(<<data>>))
    [] ans = "fail" -> Resolve(_purgeCache(_clearState(m)), AuthResultErr("error"))
    [] OTHER -> Resolve(_purgeCache(_clearState(m)), AuthResultErr("exception"))

signUpWithPasswordResume(m, ans, data) ==
  LET s == _purgeCache(_clearState(m))
  IN CASE ans = "ok" -> Resolve(s, AuthResultOk(<<data>>))
       [] ans = "fail" -> Resolve(s, AuthResultErr("error"))
       [] OTHER -> Resolve(s, AuthResultErr("exception"))

signInResume(m, ans, data) ==
  CASE ans = "ok" -> Resolve(_setAuthData(m, data), AuthResultOk(Val(data.up)))
    [] ans = "fail" -> Resolve(_purgeCache(_clearState(m)), AuthResultErr("error"))
    [] OTHER -> Resolve(_purgeCache(_clearState(m)), AuthResultErr("exception"))

\* signInWithOAuth after getNonce: nonce is "" when getNonce returned null
signInWithOAuthNonceResume(m, ans, nonce) ==
  LET n == IF ans = "ok" THEN nonce ELSE ""
  IN IF n = "" THEN Resolve(_purgeCache(_clearState(m)), AuthResultErr("Failed to obtain nonce."))
     ELSE Await(Send(StorageSetNonce(m, n), "auth.oauth_connect", "", "", ""), "auth.oauth_connect")

signInWithOAuthConnectResume(m, ans) ==
  CASE ans = "ok" -> Resolve(m, AuthResultOk(<<"REDIRECT">>))
    [] ans = "fail" -> Resolve(m, AuthResultErr("error"))
    [] OTHER -> Resolve(_purgeCache(_clearState(m)), AuthResultErr("exception"))

\* a mutated continuation whose cleanup is skipped when the dispatch throws
signOutResumeNoFinally(m, ans) ==
  IF ans = "throw" THEN Resolve(m, Ret(FALSE, <<>>))
  ELSE Resolve(_purgeCache(_clearState(m)), Ret(ans = "ok", <<>>))

signOutResume(m, ans) ==
  Resolve(_purgeCache(_clearState(m)), Ret(ans = "ok", <<>>))

getNonceResume(m, ans, nonce) ==
  LET n == IF ans = "ok" THEN nonce ELSE ""
  IN Resolve(m, Ret(n # "", Val(n)))

OpResume(m, op, pc, ans, data, nonce) ==
  CASE pc = "auth.refresh_token" ->
         LET r == _refreshTokenResume(m, ans, data) IN AfterRefresh(r.m, op, r.ok)
    [] pc = "auth.settings" /\ op = "initialize" -> initializeResume(m, ans)
    [] pc = "auth.settings" /\ op # "initialize" ->
         Resolve(loadSettingsResume(m, ans),
                 IF ans = "ok" THEN AuthResultOk(<<"settings">>)
                 ELSE AuthResultErr(IF ans = "fail" THEN "error" ELSE "exception"))
    [] pc \in {"auth.update_account", "auth.update_profile"} -> updateResume(m, ans, data)
    [] pc = "auth.send_otp" -> sendOTPResume(m, ans)
    [] pc = "auth.signup" -> signUpWithPasswordResume(m, ans, data)
    [] pc = "auth.signin" -> signInResume(m, ans, data)
    [] pc = "auth.nonce" /\ op = "signInWithOAuth" -> signInWithOAuthNonceResume(m, ans, nonce)
    [] pc = "auth.nonce" /\ op # "signInWithOAuth" -> getNonceResume(m, ans, nonce)
    [] pc = "auth.oauth_connect" -> signInWithOAuthConnectResume(m, ans)
    [] pc = "auth.signout" -> signOutResume(m, ans)

(* ------------------------- the working context ------------------------ *)
\* the fields of tab t that a task reads and writes, with what it has sent and
\* which observer calls it has made so far
M(t) ==
  [now |-> now, store |-> store, state |-> state[t], observers |-> observers[t],
   ticker |-> ticker[t], timers |-> timers[t], inProgress |-> inProgress[t],
   failed |-> failed[t], initialized |-> initialized[t], listeners |-> listeners[t],
   sent |-> <<>>, calls |-> <<>>, patches |-> 0]

\* a write of the localStorage item raises a storage event in the other windows
\* that listen
StorageEvents(t, m) ==
  [u \in Tabs |->
     IF u # t /\ m.store # store /\ listeners[u] > 0
     THEN Append(events[u], [key |-> "ns", old |-> store.token.rev, new |-> m.store.token.rev])
     ELSE events[u]]

Commit(t, m) ==
  /\ store' = m.store
  /\ state' = [state EXCEPT ![t] = m.state]
  /\ ticker' = [ticker EXCEPT ![t] = m.ticker]
  /\ timers' = [timers EXCEPT ![t] = m.timers]
  /\ inProgress' = [inProgress EXCEPT ![t] = m.inProgress]
  /\ failed' = [failed EXCEPT ![t] = m.failed]
  /\ initialized' = [initialized EXCEPT ![t] = m.initialized]
  /\ listeners' = [listeners EXCEPT ![t] = m.listeners]

\* the suspended calls are a bag of [op, pc]: how many more may suspend
Room(t) == MaxCalls - BagCardinality(procs[t])

\* k more calls p are suspended
RECURSIVE Spawn(_, _, _)
Spawn(pr, k, p) ==
  IF k = 0 THEN pr ELSE Spawn(pr (+) SetToBag({p}), k - 1, p)

\* the call p resolves (done) or is suspended again at pc
Move(pr, p, done, pc) ==
  IF done THEN pr (-) SetToBag({p})
  ELSE (pr (-) SetToBag({p})) (+) SetToBag({[op |-> p.op, pc |-> pc]})

(* ------------------------------- Init --------------------------------- *)
\* what a previous page session left in localStorage
Cached(r) == [r EXCEPT !.rev = StartTime - ClockStep]

InitialTokens == {Nil, Cached(RespSoon), Cached([RespSoon EXCEPT !.rt = ""])}

\* tab A has run `new AuthClient(dispatch, storage)`: the constructor calls
\* initialize(), which runs up to the await of loadSettings' dispatch; the
\* application has registered two observers with onStateChanged
Init ==
  /\ now = StartTime
  /\ \E tk \in InitialTokens : store = [token |-> tk, nonce |-> ""]
  /\ state = [t \in Tabs |-> [user_profile |-> "", token |-> Nil]]
  /\ observers = [t \in Tabs |-> IF t = "A" THEN <<"o1", "o2">> ELSE <<>>]
  /\ ticker = [t \in Tabs |-> FALSE]
  /\ timers = [t \in Tabs |-> 0]
  /\ inProgress = [t \in Tabs |-> FALSE]
  /\ failed = [t \in Tabs |-> FALSE]
  /\ initialized = [t \in Tabs |-> FALSE]
  /\ listeners = [t \in Tabs |-> 0]
  /\ procs = [t \in Tabs |->
                IF t = "A" THEN SetToBag({[op |-> "initialize", pc |-> "auth.settings"]}) ELSE EmptyBag]
  /\ events = [t \in Tabs |-> <<>>]
  /\ made = 0
  /\ valid = <<>>

(* ------------------------------ actions ------------------------------- *)
\* the application calls a public method
Call(t, op, arg) ==
  /\ made < MaxStimuli
  /\ made' = made + 1
  /\ \E o \in {OpCall(M(t), op, arg)} :
        /\ (~o.done => Room(t) > 0)
        /\ Commit(t, o.m)
        /\ procs' = [procs EXCEPT ![t] = IF o.done THEN @ ELSE Spawn(@, 1, [op |-> op, pc |-> o.pc])]
        /\ events' = StorageEvents(t, o.m)
  /\ UNCHANGED <<now, observers, valid>>

\* the actions whose continuation reads resp.data
DataActions ==
  {"auth.refresh_token", "auth.update_account", "auth.update_profile", "auth.signup", "auth.signin"}

\* the calls of tab t that await an answer
Suspended(t) == BagToSet(procs[t])

\* resp.data of the answer ans to the call p (Nil where it is not read)
AnswerData(p, ans) == IF ans = "ok" /\ p.pc \in DataActions THEN Responses ELSE {Nil}

\* resp.data.nonce of the answer ans to the call p
AnswerNonces(p, ans) == IF ans = "ok" /\ p.pc = "auth.nonce" THEN Nonces ELSE {""}

\* the dispatcher answers the dispatch that the suspended call p awaits
Answer(t, p, ans, data, nonce) ==
  /\ p \in Suspended(t)
  /\ data \in AnswerData(p, ans)
  /\ nonce \in AnswerNonces(p, ans)
  /\ \E o \in {OpResume(M(t), p.op, p.pc, ans, data, nonce)} :
        /\ Commit(t, o.m)
        /\ procs' = [procs EXCEPT ![t] = Move(@, p, o.done, o.pc)]
        /\ events' = StorageEvents(t, o.m)
  /\ UNCHANGED <<now, observers, made, valid>>

\* a mutated interval callback that does not look at the failure flag
autoRefreshTickAlways(m) == getIdTokenOp(m, TRUE)

\* the interval callback: if (!this._refreshFailed) this.getIdToken()
autoRefreshTick(m) ==
  IF m.failed THEN Resolve(m, Ret(FALSE, <<>>)) ELSE getIdTokenOp(m, TRUE)

\* a live interval timer fires
Tick(t) ==
  /\ timers[t] > 0
  /\ \E o \in {autoRefreshTick(M(t))} :
        /\ (~o.done => Room(t) > 0)
        /\ Commit(t, o.m)
        /\ procs' = [procs EXCEPT ![t] = IF o.done THEN @ ELSE Spawn(@, 1, [op |-> "tick", pc |-> o.pc])]
        /\ events' = StorageEvents(t, o.m)
  /\ UNCHANGED <<now, observers, made, valid>>

\* a mutated listener that reloads on every event of the namespace
_storageEventListenerAnyRev(c, e) ==
  IF e.key = "ns"
  THEN LET l == _loadFromCacheCall(c.m)
       IN [m |-> l.m, n |-> c.n + (IF l.susp THEN 1 ELSE 0)]
  ELSE c

\* one listener's run of _storageEventListener(e): n counts the calls it left suspended
_storageEventListener(c, e) ==
  IF e.key = "ns" /\ e.old # e.new
  THEN LET l == _loadFromCacheCall(c.m)
       IN [m |-> l.m, n |-> c.n + (IF l.susp THEN 1 ELSE 0)]
  ELSE c

\* the window runs every registered listener on the event
RECURSIVE RunListeners(_, _, _)
RunListeners(c, k, e) ==
  IF k = 0 THEN c ELSE RunListeners(_storageEventListener(c, e), k - 1, e)

\* the window delivers the next storage event
StorageEvent(t) ==
  /\ events[t] # <<>>
  /\ \E e \in {Head(events[t])} :
     \E c \in {RunListeners([m |-> M(t), n |-> 0], listeners[t], e)} :
        /\ Room(t) >= c.n
        /\ Commit(t, c.m)
        /\ procs' = [procs EXCEPT ![t] = Spawn(@, c.n, [op |-> "storageEvent", pc |-> "auth.refresh_token"])]
        /\ events' = [StorageEvents(t, c.m) EXCEPT ![t] = Tail(events[t])]
  /\ UNCHANGED <<now, observers, made, valid>>

\* time passes
Advance ==
  /\ now < EndTime
  /\ now' = now + ClockStep
  /\ UNCHANGED <<store, state, observers, ticker, timers, inProgress, failed, initialized,
                 listeners, procs, events, made, valid>>

\* what a sibling tab's AuthClient writes into the shared item: _setAuthData's
\* record, _purgeCache's removal, signInWithOAuth's nonce
ForeignStores ==
  {[store EXCEPT !.token = [r EXCEPT !.nil = FALSE, !.rev = now]] : r \in Responses}
  \cup {[store EXCEPT !.token = Nil]}
  \cup {[store EXCEPT !.nonce = "n1"]}

\* a sibling tab (not modelled as a client) writes the item; window t gets the event
ForeignWrite(t, st) ==
  /\ st # store
  /\ made < MaxStimuli
  /\ made' = made + 1
  /\ Len(events[t]) < MaxEvents
  /\ store' = st
  /\ events' = [events EXCEPT ![t] = Append(@, [key |-> "ns", old |-> store.token.rev, new |-> st.token.rev])]
  /\ UNCHANGED <<now, state, observers, ticker, timers, inProgress, failed, initialized,
                 listeners, procs, valid>>

\* a storage event for another localStorage key
ForeignOther(t) ==
  /\ made < MaxStimuli
  /\ made' = made + 1
  /\ Len(events[t]) < MaxEvents
  /\ events' = [events EXCEPT ![t] = Append(@, [key |-> "other", old |-> 0, new |-> now])]
  /\ UNCHANGED <<now, store, state, observers, ticker, timers, inProgress, failed, initialized,
                 listeners, procs, valid>>

Next ==
  \/ \E op \in AppOps : \E arg \in OpArgs(op) : Call("A", op, arg)
  \/ \E p \in Suspended("A"), ans \in Answers, data \in Responses \cup {Nil}, nonce \in Nonces :
        Answer("A", p, ans, data, nonce)
  \/ Tick("A")
  \/ StorageEvent("A")
  \/ Advance
  \/ \E st \in ForeignStores : ForeignWrite("A", st)
  \/ ForeignOther("A")

Spec == Init /\ [][Next]_vars

(* ====================================================================== *)
(* Properties.  A handler's effect is stated on its outcome: for a state   *)
(* of the run and a handler that can run there, the context and the value  *)
(* the handler leaves.                                                     *)
(* ====================================================================== *)
\* the actions of the dispatches a handler issued
SentActions(m) == {m.sent[i].action : i \in 1..Len(m.sent)}

\* how many calls of tab t await the answer to `action`
Outstanding(t, action) ==
  LET ps == {p \in Suspended(t) : p.pc = action}
      RECURSIVE Sum(_)
      Sum(S) == IF S = {} THEN 0
                ELSE LET p == CHOOSE q \in S : TRUE IN CopiesIn(p, procs[t]) + Sum(S \ {p})
  IN Sum(ps)

\* the suspended calls of tab t that a method op left awaiting `action`
Awaiting(t, op, action) == {p \in Suspended(t) : p.op = op /\ p.pc = action}

\* what the handlers that can run in this state leave: the application's calls,
\* the timer callback, the storage listeners on an event of a new revision
CallOutcomes(t) == {OpCall(M(t), op, arg) : op \in AppOps, arg \in Nonces \cup {"true", "false"}}

TickOutcome(t) == autoRefreshTick(M(t))

EventOutcome(t) == RunListeners([m |-> M(t), n |-> 0], listeners[t], [key |-> "ns", old |-> 0, new |-> now])

IdTokens == {r.id : r \in Responses} \cup {""}

RefreshTokens == {r.rt : r \in Responses} \cup {""}

(* ------------------------------- C1 ----------------------------------- *)
\* C1: for one AuthClient at most one 'auth.refresh_token' dispatch is
\* outstanding at any time; while one is outstanding the in-flight flag is set,
\* a _refreshToken call returns false at once leaving everything as it was, and
\* no call of the application, timer tick, storage event or answer to another
\* dispatch issues a refresh dispatch.
C1_SingleRefreshInFlight ==
  /\ Outstanding("A", "auth.refresh_token") <= 1
  /\ Outstanding("A", "auth.refresh_token") = 1 =>
       /\ inProgress["A"]
       /\ \A rt \in RefreshTokens, id \in IdTokens :
            _refreshTokenCall(M("A"), rt, id) = [m |-> M("A"), susp |-> FALSE]
       /\ \A o \in CallOutcomes("A") : "auth.refresh_token" \notin SentActions(o.m)
       /\ "auth.refresh_token" \notin SentActions(TickOutcome("A").m)
       /\ "auth.refresh_token" \notin SentActions(EventOutcome("A").m)
       /\ \A p \in Suspended("A"), ans \in Answers :
            \A data \in AnswerData(p, ans), nonce \in AnswerNonces(p, ans) :
              p.pc # "auth.refresh_token" =>
                "auth.refresh_token" \notin SentActions(OpResume(M("A"), p.op, p.pc, ans, data, nonce).m)

\* a refresh is outstanding while the cached record is invalid and has both
\* tokens, so that getIdToken(true), refreshSession and _loadFromCache all reach
\* _refreshToken, and a second call is suspended beside it
C1_Witness ==
  /\ Outstanding("A", "auth.refresh_token") = 1
  /\ BagCardinality(procs["A"]) = 2
  /\ ~store.token.nil /\ store.token.rt # "" /\ store.token.id # ""
  /\ ~_isTokenValid(M("A"), store.token)

(* ------------------------------- C2 ----------------------------------- *)
\* the answers that make a dispatch fail: ok:false, or an exception
Failures == {"fail", "throw"}

\* C2: when the 'auth.refresh_token' dispatch answers ok:false or throws,
\* _refreshToken returns false with the sticky failure flag set, and Observable
\* State (token, user_profile) and the persisted token record are what they were
\* before the answer, also once the call that awaited the refresh has finished;
\* no subscriber is notified.
C2_FailedRefreshKeepsSession ==
  \A p \in Suspended("A"), ans \in Failures :
    p.pc = "auth.refresh_token" =>
      LET r == _refreshTokenResume(M("A"), ans, Nil)
          o == OpResume(M("A"), p.op, p.pc, ans, Nil, "")
      IN /\ ~r.ok
         /\ r.m.failed
         /\ r.m.state = state["A"] /\ r.m.store = store
         /\ o.m.failed
         /\ o.m.state = state["A"] /\ o.m.store = store
         /\ o.m.calls = <<>>

\* with no call made by the application and no foreign write, a refresh has
\* failed (only _refreshToken sets the flag) and the session it was to renew is
\* still in state and cache
C2_Witness ==
  /\ made = 0
  /\ failed["A"] /\ ~inProgress["A"]
  /\ Outstanding("A", "auth.refresh_token") = 0
  /\ ~state["A"].token.nil /\ state["A"].user_profile # ""
  /\ ~store.token.nil /\ store.token.rt # ""

(* ------------------------------- C3 ----------------------------------- *)
\* C3: when the 'auth.refresh_token' dispatch answers ok:true, the token of
\* Observable State is the response record and the persisted record is the
\* response record stamped with the revision, nothing of the old record
\* surviving, user_profile is the response's, and the sticky failure flag is
\* false afterwards.
C3_RefreshReplacesWholesale ==
  \A p \in Suspended("A"), data \in Responses :
    p.pc = "auth.refresh_token" =>
      LET r == _refreshTokenResume(M("A"), "ok", data)
          o == OpResume(M("A"), p.op, p.pc, "ok", data, "")
      IN /\ r.ok
         /\ r.m.state.token = [data EXCEPT !.nil = FALSE]
         /\ r.m.state.user_profile = data.up
         /\ r.m.store.token = [data EXCEPT !.nil = FALSE, !.rev = now]
         /\ ~r.m.failed
         /\ o.m.state = r.m.state /\ o.m.store = r.m.store /\ ~o.m.failed

\* a refresh is awaited after an earlier one failed, for a cached record that
\* has a refresh_token, which the response RespLate does not supply again
C3_Witness ==
  /\ Outstanding("A", "auth.refresh_token") = 1
  /\ failed["A"]
  /\ store.token.rt = "r1" /\ ~state["A"].token.nil

(* ------------------------------- C4 ----------------------------------- *)
\* C4: whenever the dispatcher answers ok:false to signInWithPassword, whatever
\* session state and cache hold at that moment, the call resolves to
\* {ok:false, data:null, error}, isAuthenticated is false, token and
\* user_profile of Observable State are absent and the cache holds no token
\* record.
C4_SignInFailureClearsSession ==
  \A p \in Awaiting("A", "signInWithPassword", "auth.signin") :
    LET o == OpResume(M("A"), p.op, p.pc, "fail", Nil, "")
    IN /\ o.done
       /\ ~o.ret.ok /\ o.ret.data = <<>> /\ o.ret.error # ""
       /\ ~isAuthenticated(o.m)
       /\ o.m.state.token.nil /\ o.m.state.user_profile = ""
       /\ o.m.store.token.nil

\* signInWithPassword awaits its answer while the client is authenticated on a
\* cached session (reloaded from the cache after the call had cleared the state)
C4_Witness ==
  /\ Awaiting("A", "signInWithPassword", "auth.signin") # {}
  /\ isAuthenticated(M("A"))
  /\ ~store.token.nil /\ ticker["A"]

Anonymous(m) ==
  /\ m.state.token.nil /\ m.state.user_profile = ""
  /\ m.store.token.nil
  /\ ~m.ticker /\ m.timers = 0

\* C6 as stated: a successful signUpWithPassword resolves {ok:true, data: the
\* response data} and takes the client to AUTHENTICATED, Observable State and
\* the persisted cache holding the Session Record of the response.
C6_SignUpAuthenticates ==
  \A p \in Awaiting("A", "signUpWithPassword", "auth.signup"), data \in Responses :
    LET o == OpResume(M("A"), p.op, p.pc, "ok", data, "")
    IN /\ o.done
       /\ o.ret = AuthResultOk(<<data>>)
       /\ o.m.state.token = [data EXCEPT !.nil = FALSE]
       /\ o.m.state.user_profile = data.up
       /\ ~o.m.store.token.nil /\ o.m.store.token.id = data.id

\* C6 as amended: a successful signUpWithPassword resolves {ok:true, data: the
\* response data} and leaves the client ANONYMOUS: token and user_profile of
\* Observable State are absent, the cache holds no token record, isAuthenticated
\* is false and the timer is stopped, whatever session was held before.
C6_SignUpLeavesAnonymous ==
  \A p \in Awaiting("A", "signUpWithPassword", "auth.signup"), data \in Responses :
    LET o == OpResume(M("A"), p.op, p.pc, "ok", data, "")
    IN /\ o.done
       /\ o.ret = AuthResultOk(<<data>>)
       /\ Anonymous(o.m)
       /\ ~isAuthenticated(o.m)

\* signUpWithPassword awaits its answer while the cache still holds a record
C6_Witness ==
  /\ Awaiting("A", "signUpWithPassword", "auth.signup") # {}
  /\ ~store.token.nil /\ store.token.id # ""

(* ------------------------------- C7 ----------------------------------- *)
\* C7: signOut, whatever the dispatcher answers (ok:true, ok:false, an
\* exception) and whether or not a valid token exists (without one it completes
\* with no dispatch), leaves on completion token and user_profile of Observable
\* State absent, the persisted token record removed and the timer stopped.
C7_SignOutClearsEverything ==
  /\ \A o \in {OpCall(M("A"), "signOut", "")} : o.done => Anonymous(o.m)
  /\ \A p \in Awaiting("A", "signOut", "auth.signout"), ans \in Answers :
       LET o == OpResume(M("A"), p.op, p.pc, ans, Nil, "")
       IN o.done /\ Anonymous(o.m)

\* signOut awaits its answer while the client is authenticated with its timer
\* running
C7_Witness ==
  /\ Awaiting("A", "signOut", "auth.signout") # {}
  /\ isAuthenticated(M("A")) /\ state["A"].user_profile # ""
  /\ ~store.token.nil /\ ticker["A"]

(* ------------------------------- C8 ----------------------------------- *)
\* C8: signOut resolves true whenever the remote sign-out action does not
\* throw: with a valid token it dispatches exactly one 'auth.signout' carrying
\* the current id_token and aud, and it resolves true when the answer is ok:true
\* and also when it is ok:false.
C8_SignOutTrueUnlessThrow ==
  /\ \A o \in {OpCall(M("A"), "signOut", "")} :
       IF ~store.token.nil /\ _isTokenValid(M("A"), store.token)
       THEN /\ ~o.done
            /\ o.m.sent = <<[action |-> "auth.signout", id |-> store.token.id,
                             rt |-> "", aud |-> store.token.aud]>>
       ELSE o.done /\ o.ret.ok /\ o.m.sent = <<>>
  /\ \A p \in Awaiting("A", "signOut", "auth.signout"), ans \in {"ok", "fail"} :
       LET o == OpResume(M("A"), p.op, p.pc, ans, Nil, "")
       IN o.done /\ o.ret.ok /\ o.m.sent = <<>>

(* ------------------------------- C9 ----------------------------------- *)
\* C9: in every reachable state, Observable State satisfies: token absent
\* implies user_profile absent.
C9_NoProfileWithoutToken ==
  state["A"].token.nil => state["A"].user_profile = ""

\* the one stimulus so far is a signInWithPassword, which cleared a state that
\* initialize had loaded from the valid record the cache still holds
C9_Witness ==
  /\ made = 1 /\ initialized["A"]
  /\ Awaiting("A", "signInWithPassword", "auth.signin") # {}
  /\ state["A"].token.nil
  /\ ~store.token.nil /\ _isTokenValid(M("A"), store.token)

(* ------------------------------- C10 ---------------------------------- *)
\* what any handler that can run in this state leaves behind
Outcomes(t) ==
  CallOutcomes(t) \cup {TickOutcome(t)} \cup {[m |-> EventOutcome(t).m]}
  \cup {OpResume(M(t), p.op, p.pc, ans, data, nonce) :
          p \in Suspended(t), ans \in Answers, data \in Responses, nonce \in Nonces}

\* the observer calls of the k-th state write of a handler
Round(m, k) == SubSeq(m.calls, (k - 1) * Len(m.observers) + 1, k * Len(m.observers))

Instants == {999000, 999999, 1000000, 1000001, 1001000, 1002000}

\* token_info.exp of the records under test (0: absent), around 1000 s + margin
Expiries == {0, 1059, 1060, 1061, 1062, 1063}

\* the records under test, with and without an id_token
Records == {[Data(id, "", exp, "u1", "a1") EXCEPT !.nil = FALSE] : id \in {"", "i1"}, exp \in Expiries}

InitValid ==
  /\ now \in Instants
  /\ \E r \in Records : store = [token |-> r, nonce |-> ""]
  /\ state = [t \in Tabs |-> [user_profile |-> "", token |-> Nil]]
  /\ observers = [t \in Tabs |-> <<>>]
  /\ ticker = [t \in Tabs |-> FALSE]
  /\ timers = [t \in Tabs |-> 0]
  /\ inProgress = [t \in Tabs |-> FALSE]
  /\ failed = [t \in Tabs |-> FALSE]
  /\ initialized = [t \in Tabs |-> FALSE]
  /\ listeners = [t \in Tabs |-> 0]
  /\ procs = [t \in Tabs |-> EmptyBag]
  /\ events = [t \in Tabs |-> <<>>]
  /\ made = 0
  /\ valid = <<>>

\* this._isTokenValid(record) is called
Validate ==
  /\ valid = <<>>
  /\ valid' = <<_isTokenValid(M("A"), store.token)>>
  /\ UNCHANGED <<now, store, state, observers, ticker, timers, inProgress, failed, initialized,
                 listeners, procs, events, made>>

NextValid == Validate

SpecValid == InitValid /\ [][NextValid]_vars

(* ------------------------------- C11 ---------------------------------- *)
\* C11: for every record and every instant now, _isTokenValid(record) is true
\* iff the record has an id_token, has token_info.exp, and
\* exp*1000 - 60*1000 > now; hence false without id_token, false without exp,
\* false when now >= exp*1000 - 60000.
C11_ValidIffUnexpiredWithMargin ==
  valid # <<>> =>
    /\ valid[1] = (/\ store.token.id # ""
                   /\ store.token.exp # 0
                   /\ store.token.exp * 1000 - 60 * 1000 > now)
    /\ store.token.id = "" => valid[1] = FALSE
    /\ store.token.exp = 0 => valid[1] = FALSE
    /\ now >= store.token.exp * 1000 - 60000 => valid[1] = FALSE

\* the function returned false for a record with an id_token tested at the very
\* instant exp*1000 - 60000
C11_Witness ==
  /\ valid = <<FALSE>>
  /\ store.token.id # "" /\ store.token.exp # 0
  /\ now = store.token.exp * 1000 - 60000

(* ------------------------------- C12 ---------------------------------- *)
\* C12 as stated: with the 60-second margin and now = 1 000 000 ms, a record
\* with an id_token and exp = 1061 is invalid and with exp = 1062 valid.
C12_Example ==
  (valid # <<>> /\ now = 1000000 /\ store.token.id # "") =>
    /\ store.token.exp = 1061 => valid[1] = FALSE
    /\ store.token.exp = 1062 => valid[1] = TRUE

\* C12 as amended: with the 60-second margin and now = 1 000 000 ms, a record
\* with an id_token and exp = 1060 is invalid, and with exp = 1061 (as with
\* exp = 1062) valid.
C12_ExampleAtMargin ==
  (valid # <<>> /\ now = 1000000 /\ store.token.id # "") =>
    /\ store.token.exp = 1060 => valid[1] = FALSE
    /\ store.token.exp = 1061 => valid[1] = TRUE
    /\ store.token.exp = 1062 => valid[1] = TRUE

\* the function returned true at now = 1 000 000 ms for exp = 1061
C12_Witness ==
  /\ valid = <<TRUE>>
  /\ now = 1000000 /\ store.token.id # "" /\ store.token.exp = 1061

(* ------------------------------- C13 ---------------------------------- *)
\* the value a call resolved to is the id_token of the cached record, which is
\* valid, or null
LiveOrNull(o) ==
  IF o.ret.ok
  THEN /\ ~o.m.store.token.nil /\ _isTokenValid(o.m, o.m.store.token)
       /\ o.ret.data = <<o.m.store.token.id>>
  ELSE o.ret.data = <<>>

\* C13: every getIdToken(refresh) call terminates having issued at most one
\* 'auth.refresh_token' dispatch and no other: none when refresh is false, when
\* the stored token is valid or when there is no refresh_token, and none after
\* the answer; it resolves to the stored id_token only if that token is valid
\* when checked and to null otherwise, a successful refresh whose new record is
\* still invalid included.
C13_GetIdTokenOneRefresh ==
  /\ \A refresh \in BOOLEAN :
       \A o \in {getIdTokenOp(M("A"), refresh)} :
         /\ Len(o.m.sent) <= 1 /\ SentActions(o.m) \subseteq {"auth.refresh_token"}
         /\ (~refresh \/ store.token.nil \/ _isTokenValid(M("A"), store.token)
               \/ store.token.rt = "") => (o.done /\ o.m.sent = <<>>)
         /\ ~o.done => (o.pc = "auth.refresh_token" /\ Len(o.m.sent) = 1)
         /\ o.done => LiveOrNull(o)
         /\ (o.done /\ ~store.token.nil /\ _isTokenValid(M("A"), store.token)) => o.ret.ok
  /\ \A p \in Awaiting("A", "getIdToken", "auth.refresh_token")
              \cup Awaiting("A", "tick", "auth.refresh_token") :
       \A ans \in Answers : \A data \in AnswerData(p, ans) :
         \A o \in {OpResume(M("A"), p.op, p.pc, ans, data, "")} :
           /\ o.done /\ o.m.sent = <<>>
           /\ LiveOrNull(o)
           /\ ans # "ok" => ~o.ret.ok
           /\ (ans = "ok" /\ ~_isTokenValid(o.m, [data EXCEPT !.nil = FALSE])) => ~o.ret.ok
           /\ (ans = "ok" /\ _isTokenValid(o.m, [data EXCEPT !.nil = FALSE])) =>
                o.ret = Ret(TRUE, <<data.id>>)

\* a getIdToken(true) call awaits its refresh at an instant at which the record
\* RespSoon, if the refresh answers with it, is itself past its margin
C13_Witness ==
  /\ Awaiting("A", "getIdToken", "auth.refresh_token") # {}
  /\ RespSoon.id # "" /\ ~_isTokenValid(M("A"), RespSoon)

RECURSIVE CallbackCalls(_, _)
CallbackCalls(calls, obs) ==
  IF calls = <<>> THEN <<>>
  ELSE LET c == Head(calls)
       IN (IF c.observer = obs THEN AuthStateObserver(c.value, c.prev) ELSE <<>>)
          \o CallbackCalls(Tail(calls), obs)

\* the state writes of a handler that the observer obs was notified of
WritesSeen(calls, obs) == SelectSeq(calls, LAMBDA c : c.observer = obs)

\* onAuthStateChanged invokes the callback once, at once, with the current
\* profile
C15_FiresAtSubscription ==
  onAuthStateChanged(M("A"), "o3").cbs = <<state["A"].user_profile>>

\* afterwards the callback is invoked at exactly those state writes that change
\* token.id_token, with the profile written
C15_FiresOnTokenChange ==
  \A o \in Outcomes("A") :
    CallbackCalls(o.m.calls, "o2") =
      [i \in 1..Len(SelectSeq(WritesSeen(o.m.calls, "o2"),
                              LAMBDA c : c.target.token.id # c.prev.token.id)) |->
         SelectSeq(WritesSeen(o.m.calls, "o2"),
                   LAMBDA c : c.target.token.id # c.prev.token.id)[i].target.user_profile]

\* a successful updateProfile whose response carries only the profile does not
\* invoke the callback
C15_SilentOnProfileEdit ==
  \A p \in Awaiting("A", "updateProfile", "auth.update_profile") :
    CallbackCalls(OpResume(M("A"), p.op, p.pc, "ok", RespProfile, "").m.calls, "o2") = <<>>

\* C15: onAuthStateChanged(cb) invokes cb exactly once, synchronously, at
\* subscription time with the current profile; afterwards cb is invoked exactly
\* at those state writes that change token.id_token, and it is not invoked by a
\* successful updateProfile that edits only profile fields.
C15_AuthCallbackOnlyOnTokenChange ==
  /\ C15_FiresAtSubscription
  /\ C15_FiresOnTokenChange
  /\ C15_SilentOnProfileEdit

(* ------------------------------- C16 ---------------------------------- *)
\* what the window's listeners leave on the storage event that is next
NextEventOutcome(t) == RunListeners([m |-> M(t), n |-> 0], listeners[t], Head(events[t]))

InitTabs ==
  /\ now = StartTime
  /\ \E tk \in InitialTokens : store = [token |-> tk, nonce |-> ""]
  /\ state = [t \in Tabs |-> [user_profile |-> "", token |-> Nil]]
  /\ observers = [t \in Tabs |-> <<"o1", "o2">>]
  /\ ticker = [t \in Tabs |-> FALSE]
  /\ timers = [t \in Tabs |-> 0]
  /\ inProgress = [t \in Tabs |-> FALSE]
  /\ failed = [t \in Tabs |-> FALSE]
  /\ initialized = [t \in Tabs |-> FALSE]
  /\ listeners = [t \in Tabs |-> 0]
  /\ procs = [t \in Tabs |-> SetToBag({[op |-> "initialize", pc |-> "auth.settings"]})]
  /\ events = [t \in Tabs |-> <<>>]
  /\ made = 0
  /\ valid = <<>>

\* what the user does in tab A: sign in, sign out, ask for a fresh session (tab
\* B is left to its timer and its storage listener)
TabOps == {"signInWithPassword", "signOut", "refreshSession"}

\* a window holds at most MaxEvents storage events that its listeners have not
\* run on yet
QueueBound == \A u \in Tabs : Len(events'[u]) <= MaxEvents

NextTabs ==
  \/ \E op \in TabOps : Call("A", op, "") /\ QueueBound
  \/ \E t \in Tabs : \E p \in Suspended(t), ans \in Answers, data \in Responses \cup {Nil} :
        Answer(t, p, ans, data, "") /\ QueueBound
  \/ \E t \in Tabs : Tick(t) /\ QueueBound
  \/ \E t \in Tabs : StorageEvent(t) /\ QueueBound
  \/ Advance

SpecTabs == InitTabs /\ [][NextTabs]_vars

(* ------------------------------- C17 ---------------------------------- *)
\* two token records are the same Session Record (the cache's copy also has the
\* revision)
SameRecord(a, b) == [a EXCEPT !.rev = 0] = [b EXCEPT !.rev = 0]

Refreshable(m) ==
  /\ ~m.store.token.nil /\ ~_isTokenValid(m, m.store.token)
  /\ m.store.token.rt # "" /\ m.store.token.id # ""

\* the handler left exactly one dispatch, an 'auth.refresh_token'
RefreshSent(o) ==
  /\ ~o.done /\ o.pc = "auth.refresh_token"
  /\ Len(o.m.sent) = 1 /\ o.m.sent[1].action = "auth.refresh_token"

\* C18: while the sticky failure flag is set no timer tick issues any dispatch,
\* and the flag stays set until a refresh succeeds; manual calls made while it
\* is set (refreshSession, getIdToken(true)) still dispatch a refresh, and a
\* successful refresh clears the flag, after which a tick refreshes again.
C18_StickyFailureSilencesTicks ==
  /\ failed["A"] =>
       /\ TickOutcome("A") = Resolve(M("A"), Ret(FALSE, <<>>))
       /\ \A o \in CallOutcomes("A") \cup {[m |-> EventOutcome("A").m]} : o.m.failed
       /\ \A p \in Suspended("A"), ans \in Answers : \A data \in AnswerData(p, ans) :
            (p.pc # "auth.refresh_token" \/ ans # "ok") =>
               OpResume(M("A"), p.op, p.pc, ans, data, "").m.failed
       /\ (~inProgress["A"] /\ Refreshable(M("A"))) =>
            /\ RefreshSent(OpCall(M("A"), "refreshSession", ""))
            /\ RefreshSent(OpCall(M("A"), "getIdToken", "true"))
  /\ \A p \in Suspended("A"), data \in Responses :
       p.pc = "auth.refresh_token" =>
         \A o \in {OpResume(M("A"), p.op, p.pc, "ok", data, "")} :
           /\ ~o.m.failed
           /\ (o.done /\ Refreshable(o.m)) => RefreshSent(autoRefreshTick(o.m))

\* the flag is set and the timer runs over a cached record that a tick would
\* otherwise exchange
C18_Witness ==
  /\ failed["A"] /\ ~inProgress["A"]
  /\ timers["A"] > 0 /\ ticker["A"]
  /\ Refreshable(M("A"))

(* ====================================================================== *)
(* The scheduler at the grain of microtasks.  _startAutoRefreshToken is    *)
(* async: it stops the timer, awaits, and sets the interval in a later     *)
(* microtask.  When several dispatches are answered together, their        *)
(* continuations run in one drain of the microtask queue and the           *)
(* synchronous parts below interleave with the pending continuations of    *)
(* _startAutoRefreshToken.                                                 *)
(* ====================================================================== *)
\* the continuation of a _startAutoRefreshToken call that awaits
StartPending == [op |-> "_startAutoRefreshToken", pc |-> "_stopAutoRefreshToken"]

InitTimer ==
  /\ now = StartTime
  /\ store = [token |-> Nil, nonce |-> ""]
  /\ state = [t \in Tabs |-> [user_profile |-> "", token |-> Nil]]
  /\ observers = [t \in Tabs |-> IF t = "A" THEN <<"o1", "o2">> ELSE <<>>]
  /\ ticker = [t \in Tabs |-> FALSE]
  /\ timers = [t \in Tabs |-> 0]
  /\ inProgress = [t \in Tabs |-> FALSE]
  /\ failed = [t \in Tabs |-> FALSE]
  /\ initialized = [t \in Tabs |-> FALSE]
  /\ listeners = [t \in Tabs |-> 0]
  /\ procs = [t \in Tabs |-> EmptyBag]
  /\ events = [t \in Tabs |-> <<>>]
  /\ made = 0
  /\ valid = <<>>

\* a synchronous part that ends in a call of _startAutoRefreshToken leaves m
\* and one more continuation pending
StartsTimer(t, m) ==
  /\ made < MaxStimuli /\ Room(t) > 0
  /\ made' = made + 1
  /\ Commit(t, m)
  /\ procs' = [procs EXCEPT ![t] = Spawn(@, 1, StartPending)]
  /\ UNCHANGED <<now, observers, events, valid>>

\* a synchronous part that only stops the timer leaves m
StopsTimer(t, m) ==
  /\ made < MaxStimuli
  /\ made' = made + 1
  /\ Commit(t, m)
  /\ UNCHANGED <<now, observers, events, valid, procs>>

\* sign-in, OAuth exchange, refresh, update: _setAuthData(resp.data)
SetAuthDataStep(t, data) == StartsTimer(t, _setAuthDataCall(M(t), data))

\* initialize: this._startAutoRefreshToken()
InitializeStartStep(t) ==
  StartsTimer(t, [_startAutoRefreshTokenCall(M(t)) EXCEPT !.initialized = TRUE])

\* sign-out, failed sign-in, sign-up: _clearState()
ClearStateStep(t) == StopsTimer(t, _clearState(M(t)))

\* signInWithOAuthAccessCode: this._stopAutoRefreshToken()
StopStep(t) == StopsTimer(t, _stopAutoRefreshToken(M(t)))

\* a pending _startAutoRefreshToken continues after its await
ArmStep(t) ==
  /\ StartPending \in Suspended(t)
  /\ Commit(t, _startAutoRefreshTokenResume(M(t)))
  /\ procs' = [procs EXCEPT ![t] = Move(@, StartPending, TRUE, "")]
  /\ UNCHANGED <<now, observers, events, valid, made>>

NextTimer ==
  \/ \E data \in Responses : SetAuthDataStep("A", data)
  \/ InitializeStartStep("A")
  \/ ClearStateStep("A")
  \/ StopStep("A")
  \/ ArmStep("A")

SpecTimer == InitTimer /\ [][NextTimer]_vars

(* ------------------------------- C19 ---------------------------------- *)
\* C19: at every moment at most one interval timer is live per client, and a
\* live timer's handle is held in _autoRefreshTicker: no interleaving of
\* _startAutoRefreshToken and _stopAutoRefreshToken calls leaves a running
\* timer whose handle is no longer held.
C19_AtMostOneTimer ==
  /\ timers["A"] <= 1
  /\ timers["A"] = (IF ticker["A"] THEN 1 ELSE 0)

(* ------------------------------- C20 ---------------------------------- *)
\* the operation that left m has completed a write of a Session Record into
\* Observable State
WroteSession(m) == m.patches >= 1 /\ ~m.state.token.nil

\* the answers that complete a call of an initialized client leave the timer
\* armed whenever they wrote a Session Record
C20_AnswersArm ==
  \A p \in Suspended("A"), ans \in Answers, nonce \in Nonces : \A data \in AnswerData(p, ans) :
    \A o \in {OpResume(M("A"), p.op, p.pc, ans, data, nonce)} :
      (o.done /\ o.m.initialized /\ WroteSession(o.m)) => o.m.ticker

\* the storage listener of an initialized client leaves the timer armed
\* whenever it wrote a Session Record
C20_ReconciliationArms ==
  (events["A"] # <<>> /\ listeners["A"] > 0 /\ initialized["A"]) =>
    \A c \in {NextEventOutcome("A")} : (c.n = 0 /\ WroteSession(c.m)) => c.m.ticker

\* C20: every successful write of a Session Record into Observable State, by
\* sign-in, OAuth exchange, refresh, cache load at initialisation or cross-tab
\* reconciliation, leaves the auto-refresh timer armed: when the writing
\* operation has completed, Observable State holds a token only with a timer
\* armed.
C20_SessionWriteArmsTimer == C20_AnswersArm /\ C20_ReconciliationArms

(* ------------------------------- C21 ---------------------------------- *)
\* the operations that are not to touch the Session Record
Bystanders == {"updateAccount", "updateProfile", "sendOTP", "loadSettings", "getNonce", "getUser"}

\* m holds the token that the current state holds, in Observable State and cache
SameTokens(m) == m.state.token = state["A"].token /\ m.store.token = store.token

\* C21: a Session Record enters Observable State or the cache only through a
\* successful sign-in, sign-up, refresh or OAuth exchange (or a reload of the
\* cache) and is altered only by a successful refresh: no step of updateAccount,
\* updateProfile, sendOTP, loadSettings, getNonce or getUser, other than the
\* answer to a refresh it started, writes or replaces the token.
C21_BystandersKeepToken ==
  /\ \A op \in Bystanders, arg \in Nonces : SameTokens(OpCall(M("A"), op, arg).m)
  /\ \A p \in Suspended("A"), ans \in Answers, nonce \in Nonces : \A data \in AnswerData(p, ans) :
       (p.op \in Bystanders /\ p.pc # "auth.refresh_token") =>
          SameTokens(OpResume(M("A"), p.op, p.pc, ans, data, nonce).m)

(* ------------------------------- C22 ---------------------------------- *)
\* the facade operations that clear Observable State
Facade ==
  {"signUpWithPassword", "signInWithPassword", "signInWithOAuth",
   "signInWithOAuthAccessCode", "signOut"}

\* the operation has completed, Observable State is cleared, the cache holds a
\* token record
ClearedUnpurged(o) == o.done /\ o.m.state.token.nil /\ ~o.m.store.token.nil

\* C22: every operation that clears Observable State also purges the persisted
\* token: when signUpWithPassword, signInWithPassword, signInWithOAuth,
\* signInWithOAuthAccessCode or signOut completes with the state cleared, the
\* cache holds no token record.
C22_ClearPairedWithPurge ==
  /\ \A op \in Facade : \A arg \in OpArgs(op) : ~ClearedUnpurged(OpCall(M("A"), op, arg))
  /\ \A p \in Suspended("A"), ans \in Answers, nonce \in Nonces : \A data \in AnswerData(p, ans) :
       p.op \in Facade => ~ClearedUnpurged(OpResume(M("A"), p.op, p.pc, ans, data, nonce))

(* ------------------------------- C23 ---------------------------------- *)
\* m is signed out: Observable State cleared, no cached token, no timer
SignedOut(m) ==
  /\ m.state = [user_profile |-> "", token |-> Nil]
  /\ m.store.token.nil
  /\ ~m.ticker /\ m.timers = 0

\* the call has resolved to an error result
Failed(o) == o.done /\ ~o.ret.ok /\ o.ret.error # ""

\* C23: signInWithOAuthAccessCode called with neither an explicit nor a
\* persisted nonce, or with no cached token record, issues no dispatch, resolves
\* to an error result and leaves Observable State cleared, the persisted token
\* purged and the timer stopped; an answer ok:false or an exception of the
\* exchange ends in the same state with an error result.
C23_OAuthExchangeFailureSignsOut ==
  /\ \A nonce \in Nonces :
       ((nonce = "" /\ store.nonce = "") \/ store.token.nil) =>
          \A o \in {OpCall(M("A"), "signInWithOAuthAccessCode", nonce)} :
             Failed(o) /\ o.m.sent = <<>> /\ SignedOut(o.m)
  /\ \A p \in Suspended("A"), ans \in {"fail", "throw"} :
       p.op = "signInWithOAuthAccessCode" =>
          \A o \in {OpResume(M("A"), p.op, p.pc, ans, Nil, "")} : Failed(o) /\ SignedOut(o.m)

\* an exchange is awaited, and a call without nonce would find none, while the
\* client holds a session in Observable State and in the cache
C23_Witness ==
  /\ Awaiting("A", "signInWithOAuthAccessCode", "auth.signin") # {}
  /\ store.nonce = "" /\ ~store.token.nil /\ ~state["A"].token.nil

(* ------------------------------- C24 ---------------------------------- *)
\* the public operations that return an AuthResult
ResultOps ==
  {"signUpWithPassword", "signInWithPassword", "signInWithOAuth", "signInWithOAuthAccessCode",
   "updateAccount", "updateProfile", "sendOTP", "loadSettings"}

\* those that return a token, a nonce or a profile, or null
Readers == {"getIdToken", "refreshSession", "getUser", "getNonce"}

PublicOps == ResultOps \cup Readers \cup {"signOut"}

\* the promise of the call is not rejected: it is pending or fulfilled by a value
Fulfils(o) == DOMAIN o.ret = {"ok", "data", "error"}

\* C24: every public operation resolves to a value and never rejects, whatever
\* the dispatcher does; when the dispatcher throws, the operations that return a
\* result resolve {ok:false, data:null, error}, signOut resolves false, and
\* getIdToken, refreshSession, getUser and getNonce resolve null.
C24_NeverRejects ==
  /\ \A op \in PublicOps : \A arg \in OpArgs(op) : Fulfils(OpCall(M("A"), op, arg))
  /\ \A p \in Suspended("A"), ans \in Answers, nonce \in Nonces : \A data \in AnswerData(p, ans) :
       p.op \in PublicOps =>
         \A o \in {OpResume(M("A"), p.op, p.pc, ans, data, nonce)} :
           /\ Fulfils(o)
           /\ ans = "throw" =>
                /\ o.done
                /\ p.op \in ResultOps =>
                     (~o.ret.ok /\ o.ret.data = <<>> /\ o.ret.error # "")
                /\ p.op \in Readers \cup {"signOut"} => o.ret = Ret(FALSE, <<>>)

\* signOut and an operation that returns a result both await the dispatcher
C24_Witness ==
  /\ Awaiting("A", "signOut", "auth.signout") # {}
  /\ \E p \in Suspended("A") : p.op \in ResultOps

(* ------------------------------- C25 ---------------------------------- *)
\* the dispatches of updateAccount, updateProfile and sendOTP
EditActions == {"auth.update_account", "auth.update_profile", "auth.send_otp"}

\* C25: when the dispatcher answers ok:false to updateAccount, updateProfile or
\* sendOTP, the call resolves {ok:false, error} and the answer changes nothing:
\* Observable State, the persisted token record, the sticky failure flag and the
\* timer stay as they are, no observer is called and nothing is dispatched.
C25_RefusedEditChangesNothing ==
  \A p \in Suspended("A") :
    p.pc \in EditActions =>
      \A o \in {OpResume(M("A"), p.op, p.pc, "fail", Nil, "")} :
        /\ o.done /\ ~o.ret.ok /\ o.ret.error # ""
        /\ o.m = M("A")

\* an update of the profile awaits its answer while the client holds a session
\* with its timer armed
C25_Witness ==
  /\ Awaiting("A", "updateProfile", "auth.update_profile") # {}
  /\ ~state["A"].token.nil /\ ~store.token.nil /\ ticker["A"]

(* ------------------------------- C26 ---------------------------------- *)
\* the constructor has returned and nothing has happened since: its initialize
\* awaits the answer to 'auth.settings'
Constructed ==
  /\ made = 0 /\ now = StartTime /\ ~initialized["A"]
  /\ Awaiting("A", "initialize", "auth.settings") # {}

\* C26: the initial state is decided synchronously at construction: when the
\* constructor returns and storage holds a valid cached Session Record,
\* Observable State holds that record and isAuthenticated is true before any
\* dispatch has resolved; with no cached record the client is anonymous.
C26_InitialStateAtConstruction ==
  Constructed =>
    /\ (~store.token.nil /\ _isTokenValid(M("A"), store.token)) =>
          (SameRecord(state["A"].token, store.token) /\ isAuthenticated(M("A")))
    /\ store.token.nil => Anonymous(M("A"))

(* ====================================================================== *)
(* Background refresh: a client whose timer ticks and whose dispatcher     *)
(* answers, every refresh with ok:true and a fresh valid record.  The      *)
(* application may read (getIdToken, getUser, refreshSession,              *)
(* refreshAuthState, getNonce, loadSettings) but nothing obliges it to.    *)
(* ====================================================================== *)
ReadOps == {"getIdToken", "getUser", "refreshSession", "refreshAuthState", "getNonce", "loadSettings"}

\* the dispatcher answers the dispatch p awaits: a refresh with a fresh record
DispatcherAnswers(p, ans, nonce) ==
  IF p.pc = "auth.refresh_token" THEN ans = "ok" /\ Answer("A", p, "ok", RespLate, nonce)
  ELSE Answer("A", p, ans, Nil, nonce)

AnswerLive == \E p \in Suspended("A"), ans \in Answers, nonce \in Nonces : DispatcherAnswers(p, ans, nonce)

NextLive ==
  \/ \E op \in ReadOps : \E arg \in OpArgs(op) : Call("A", op, arg)
  \/ AnswerLive
  \/ Tick("A")
  \/ Advance

\* the interval fires again and again, and the dispatcher answers what it is sent
SpecLive == Init /\ [][NextLive]_vars /\ WF_vars(Tick("A")) /\ WF_vars(AnswerLive)

(* ------------------------------- C27 ---------------------------------- *)
\* the stored token is invalid and has a refresh_token, the timer is armed and
\* the sticky failure flag is false
NeedsRefresh ==
  /\ ~store.token.nil /\ ~_isTokenValid(M("A"), store.token) /\ store.token.rt # ""
  /\ ticker["A"] /\ ~failed["A"]

\* the client holds a valid token, in Observable State and in the cache
HoldsValid ==
  /\ isAuthenticated(M("A"))
  /\ ~store.token.nil /\ _isTokenValid(M("A"), store.token)

\* C27: under fair timer ticks and a dispatcher that answers every refresh
\* ok:true with a fresh valid record, whenever the stored token is invalid while
\* it has a refresh_token, the timer is armed and the sticky failure flag is
\* false, the client eventually holds a valid token again, with no call from
\* the application needed.
C27_BackgroundRefresh == NeedsRefresh ~> HoldsValid

\* the token expired and was refreshed with no call of the application
C27_Witness ==
  /\ made = 0 /\ now = EndTime
  /\ HoldsValid /\ state["A"].token.id = RespLate.id

(* ------------------------------- C28 ---------------------------------- *)
\* the handler resolved to failure (false or null) and dispatched nothing
FailsUnsent(o) == o.done /\ o.ret = Ret(FALSE, <<>>) /\ o.m.sent = <<>>

\* C28: the in-flight flag is set exactly while a refresh dispatch is
\* outstanding: the answer to that dispatch, ok:true, ok:false or an exception,
\* clears it, so that the next refresh call dispatches; while the dispatch is
\* unanswered the flag stays set and every refresh attempt, by the timer, the
\* storage listener or the application, fails without dispatching.
C28_InFlightWhileOutstanding ==
  /\ inProgress["A"] <=> (Outstanding("A", "auth.refresh_token") = 1)
  /\ \A p \in Suspended("A"), ans \in Answers : \A data \in AnswerData(p, ans) :
       p.pc = "auth.refresh_token" =>
         \A o \in {OpResume(M("A"), p.op, p.pc, ans, data, "")} :
           /\ ~o.m.inProgress
           /\ \A rt \in RefreshTokens \ {""}, id \in IdTokens \ {""} :
                _refreshTokenCall(o.m, rt, id).susp
           /\ Refreshable(o.m) => RefreshSent(OpCall(o.m, "refreshSession", ""))
  /\ (inProgress["A"] /\ Refreshable(M("A"))) =>
       /\ FailsUnsent(OpCall(M("A"), "refreshSession", ""))
       /\ FailsUnsent(OpCall(M("A"), "getIdToken", "true"))
       /\ FailsUnsent(OpCall(M("A"), "refreshAuthState", ""))
       /\ ticker["A"] => FailsUnsent(TickOutcome("A"))
       /\ \A c \in {EventOutcome("A")} : c.n = 0 /\ c.m.sent = <<>> /\ c.m.inProgress

\* a refresh is unanswered while the timer is armed and the cached record is
\* one that a refresh attempt would otherwise send
C28_Witness ==
  /\ inProgress["A"] /\ Outstanding("A", "auth.refresh_token") = 1
  /\ Refreshable(M("A")) /\ ticker["A"] /\ listeners["A"] > 0

(* ------------------------------- C29 ---------------------------------- *)
\* C29: _refreshToken called with an empty refresh_token or an empty id_token
\* returns false at once with no dispatch and leaves the in-flight flag, the
\* sticky failure flag, Observable State and the cache as they are; hence
\* refreshSession on a cached record that lacks either token (or with no
\* record) resolves null without dispatching.
C29_EmptyTokensFailFast ==
  /\ \A rt \in RefreshTokens, id \in IdTokens :
       (rt = "" \/ id = "") =>
          _refreshTokenCall(M("A"), rt, id) = [m |-> M("A"), susp |-> FALSE]
  /\ (store.token.rt = "" \/ store.token.id = "") =>
       OpCall(M("A"), "refreshSession", "") = Resolve(M("A"), Ret(FALSE, <<>>))

\* the cache holds a record with an id_token and no refresh_token while no
\* refresh is in flight
C29_Witness ==
  /\ ~store.token.nil /\ store.token.rt = "" /\ store.token.id # ""
  /\ ~inProgress["A"] /\ initialized["A"]

(* ====================================================================== *)
(* lib.ts: useReactiveState on its own.  The application subscribes and    *)
(* unsubscribes observers, writes fields, patches and deletes; an observer *)
(* may call its own unsubscribe function while it is being notified.       *)
(* ====================================================================== *)
\* observers.indexOf(observer): 0 stands for JavaScript's -1
indexOf(obs, o) ==
  IF \E i \in 1..Len(obs) : obs[i] = o
  THEN CHOOSE i \in 1..Len(obs) : obs[i] = o /\ \A j \in 1..(i - 1) : obs[j] # o
  ELSE 0

\* observers.splice(start, 1), start as indexOf gave it: -1 counts from the end
splice(obs, start) ==
  LET at == IF start = 0 THEN Len(obs) ELSE start
  IN IF at = 0 THEN obs ELSE SubSeq(obs, 1, at - 1) \o SubSeq(obs, at + 1, Len(obs))

\* subscribe(observer)
subscribe(obs, o) == Append(obs, o)

\* the function that subscribe(o) returned
unsubscribe(obs, o) == splice(obs, indexOf(obs, o))

\* observers.forEach(observer => observer(value, prev, target)): the indices
\* 1..len of the array as it is when each is reached; the observers in quits
\* call their unsubscribe function when they are notified
RECURSIVE forEach(_, _, _, _, _)
forEach(c, k, len, quits, call) ==
  IF k > len THEN c
  ELSE IF k > Len(c.obs) THEN forEach(c, k + 1, len, quits, call)
  ELSE forEach(
         [obs |-> IF c.obs[k] \in quits THEN unsubscribe(c.obs, c.obs[k]) ELSE c.obs,
          calls |-> Append(c.calls, [call EXCEPT !.observer = c.obs[k]])],
         k + 1, len, quits, call)

\* one round of notification on the working context m whose state is written
NotifyRound(m, value, prev, quits) ==
  LET c == forEach([obs |-> m.observers, calls |-> <<>>], 1, Len(m.observers),
                   quits, [observer |-> "", value |-> value, prev |-> prev, target |-> m.state])
  IN [m EXCEPT !.observers = c.obs, !.calls = @ \o c.calls, !.patches = @ + 1]

\* the set trap: a field write, or a patch under the name __patch__
ProxySetTrap(m, property, value, quits) ==
  LET prev == copy(m.state)
      target == IF property = "__patch__"
                THEN [k \in DOMAIN m.state \cup DOMAIN value |->
                        IF k \in DOMAIN value THEN value[k] ELSE m.state[k]]
                ELSE [k \in DOMAIN m.state \cup {property} |->
                        IF k = property THEN value ELSE m.state[k]]
  IN NotifyRound([m EXCEPT !.state = target], value, prev, quits)

\* the deleteProperty trap
ProxyDeleteTrap(m, property, quits) ==
  IF property \in DOMAIN m.state
  THEN LET value == copy(m.state[property])
           prev == copy(m.state)
           target == [k \in DOMAIN m.state \ {property} |-> m.state[k]]
       IN NotifyRound([m EXCEPT !.state = target], value, prev, quits)
  ELSE m

Fields == {"user_profile", "token"}

\* the functions the application subscribes
Subscribers == ObserverIds \cup {"o3"}

FieldValues(k) == IF k = "token" THEN {Nil, RespSoon} ELSE {"", "u1"}

PatchValues ==
  {[user_profile |-> u, token |-> tk] : u \in FieldValues("user_profile"), tk \in FieldValues("token")}
  \cup {[user_profile |-> u] : u \in FieldValues("user_profile")}

InitStore ==
  /\ now = StartTime
  /\ store = [token |-> Nil, nonce |-> ""]
  /\ state = [t \in Tabs |-> [user_profile |-> "", token |-> Nil]]
  /\ observers = [t \in Tabs |-> <<>>]
  /\ ticker = [t \in Tabs |-> FALSE]
  /\ timers = [t \in Tabs |-> 0]
  /\ inProgress = [t \in Tabs |-> FALSE]
  /\ failed = [t \in Tabs |-> FALSE]
  /\ initialized = [t \in Tabs |-> FALSE]
  /\ listeners = [t \in Tabs |-> 0]
  /\ procs = [t \in Tabs |-> EmptyBag]
  /\ events = [t \in Tabs |-> <<>>]
  /\ made = 0
  /\ valid = <<>>

\* the store of tab t becomes what m holds
StoreStep(t, m) ==
  /\ state' = [state EXCEPT ![t] = m.state]
  /\ observers' = [observers EXCEPT ![t] = m.observers]
  /\ UNCHANGED <<now, store, ticker, timers, inProgress, failed, initialized, listeners,
                 procs, events, made, valid>>

\* each function is subscribed at most once at a time
Subscribe(t, o) ==
  /\ indexOf(observers[t], o) = 0
  /\ StoreStep(t, [M(t) EXCEPT !.observers = subscribe(@, o)])

\* the application calls the function that subscribe(o) returned
Unsubscribe(t, o) ==
  /\ indexOf(observers[t], o) # 0
  /\ StoreStep(t, [M(t) EXCEPT !.observers = unsubscribe(@, o)])

\* the application calls that function twice
UnsubscribeTwice(t, o) ==
  /\ indexOf(observers[t], o) # 0
  /\ StoreStep(t, [M(t) EXCEPT !.observers = unsubscribe(unsubscribe(@, o), o)])

FieldWrite(t, k, v, quits) == StoreStep(t, ProxySetTrap(M(t), k, v, quits))

PatchWrite(t, v, quits) == StoreStep(t, ProxySetTrap(M(t), "__patch__", v, quits))

Delete(t, k, quits) == StoreStep(t, ProxyDeleteTrap(M(t), k, quits))

NextStore ==
  \/ \E o \in Subscribers : Subscribe("A", o)
  \/ \E o \in Subscribers : Unsubscribe("A", o)
  \/ \E o \in Subscribers : UnsubscribeTwice("A", o)
  \/ \E k \in Fields, quits \in SUBSET Subscribers : \E v \in FieldValues(k) : FieldWrite("A", k, v, quits)
  \/ \E v \in PatchValues, quits \in SUBSET Subscribers : PatchWrite("A", v, quits)
  \/ \E k \in Fields, quits \in SUBSET Subscribers : Delete("A", k, quits)

SpecStore == InitStore /\ [][NextStore]_vars

(* ------------------------------- C30 ---------------------------------- *)
\* the calls that invoke every observer registered in m exactly once, in
\* registration order, with (value, the state of m, target)
OnceEach(m, value, target) == Notify(m.observers, value, copy(m.state), target)

\* C30: in the reactive store, after any sequence of subscribe, unsubscribe,
\* field-write, patch-write and delete operations, each write and each delete
\* of an existing field invokes every currently registered observer exactly
\* once, in registration order, with (changed value, snapshot of the state
\* before the write, current state), also when an observer unsubscribes during
\* the round; a delete passes the removed value.
C30_EveryObserverOncePerWrite ==
  \A quits \in SUBSET Subscribers :
    /\ \A k \in Fields : \A v \in FieldValues(k) :
         \A o \in {ProxySetTrap(M("A"), k, v, quits)} : o.calls = OnceEach(M("A"), v, o.state)
    /\ \A v \in PatchValues :
         \A o \in {ProxySetTrap(M("A"), "__patch__", v, quits)} : o.calls = OnceEach(M("A"), v, o.state)
    /\ \A k \in Fields \cap DOMAIN state["A"] :
         \A o \in {ProxyDeleteTrap(M("A"), k, quits)} :
            o.calls = OnceEach(M("A"), state["A"][k], o.state)

(* ------------------------------- C31 ---------------------------------- *)
\* the ways signOut can complete in this state: a call that resolves at once,
\* or the answer to its 'auth.signout' dispatch
SignOutCompletions ==
  {o \in {OpCall(M("A"), "signOut", "")} : o.done}
  \cup {OpResume(M("A"), q.op, q.pc, ans, Nil, "") :
          q \in Awaiting("A", "signOut", "auth.signout"), ans \in Answers}

\* C31: sign-out is final against work in flight: when signOut completes while
\* an 'auth.refresh_token' dispatch started earlier is outstanding, the answer
\* to that refresh, whatever it is, leaves Observable State and the persisted
\* token absent and the timer stopped.
C31_SignOutFinal ==
  \A p \in Suspended("A") :
    p.pc = "auth.refresh_token" =>
      \A so \in SignOutCompletions :
        /\ SignedOut(so.m)
        /\ \A ans \in Answers : \A data \in AnswerData(p, ans) :
             SignedOut(OpResume(so.m, p.op, p.pc, ans, data, "").m)

(* ------------------------------- C32 ---------------------------------- *)
\* the id_token and refresh_token of a record
Credentials(tk) == <<tk.id, tk.rt>>

\* C32: a successful updateProfile or updateAccount keeps the user signed in:
\* for every ok:true response, one with only user_profile included, after the
\* call isAuthenticated is still true and the id_token and refresh_token in
\* Observable State and in the cache are those held before.
C32_UpdateKeepsSession ==
  \A p \in Suspended("A"), data \in Responses :
    (p.pc \in {"auth.update_account", "auth.update_profile"} /\ isAuthenticated(M("A"))) =>
      \A o \in {OpResume(M("A"), p.op, p.pc, "ok", data, "")} :
        /\ o.done /\ o.ret.ok
        /\ isAuthenticated(o.m)
        /\ Credentials(o.m.state.token) = Credentials(state["A"].token)
        /\ Credentials(o.m.store.token) = Credentials(store.token)

(* ------------------------------- C33 ---------------------------------- *)
\* C33: when subscribers are notified of a new Session Record (after sign-in,
\* refresh or OAuth exchange) the persisted cache already holds that record: a
\* getIdToken() or getUser() issued from inside the notification returns the
\* new session's token or profile.
C33_CacheHoldsNotifiedRecord ==
  \A p \in Suspended("A"), data \in Responses :
    (p.pc \in {"auth.signin", "auth.refresh_token"} /\ observers["A"] # <<>>
       /\ _isTokenValid(M("A"), data)) =>
      \A n \in {_setAuthDataNotify(M("A"), data)} :
        /\ n.patches = 1 /\ n.state.token.id = data.id
        /\ SameRecord(n.store.token, data)
        /\ getIdTokenOp(n, TRUE) = Resolve(n, Ret(TRUE, Val(data.id)))
        /\ getUserCall(n) = Resolve(n, Ret(TRUE, Val(data.up)))

(* ====================================================================== *)
(* One tab alone: no sibling writes the shared item, so no storage event   *)
(* is ever delivered.                                                      *)
(* ====================================================================== *)
NextSolo ==
  \/ \E op \in AppOps : \E arg \in OpArgs(op) : Call("A", op, arg)
  \/ \E p \in Suspended("A"), ans \in Answers, data \in Responses \cup {Nil}, nonce \in Nonces :
        Answer("A", p, ans, data, nonce)
  \/ Tick("A")
  \/ Advance

SpecSolo == Init /\ [][NextSolo]_vars

(* ------------------------------- C34 ---------------------------------- *)
\* C34: in a single tab, between operations, memory does not differ from the
\* durable copy: if Observable State holds a token then the persisted cache
\* holds a token record with the same id_token and refresh_token.
C34_StateMatchesCache ==
  ~state["A"].token.nil =>
    /\ ~store.token.nil
    /\ Credentials(store.token) = Credentials(state["A"].token)

\* the session in Observable State is one that the client wrote itself, after
\* the one it loaded from the cache
C34_Witness ==
  /\ ~state["A"].token.nil /\ state["A"].token.id = RespLate.id
  /\ initialized["A"] /\ made >= 2

(* ------------------------------- C35 ---------------------------------- *)
\* C35: a fresh successful sign-in or OAuth exchange re-enables automatic
\* refresh: after it, the next timer tick that finds the stored token invalid
\* (and no refresh in flight) dispatches a refresh, also when a refresh failed
\* earlier.
C35_SignInReenablesRefresh ==
  \A p \in Suspended("A"), data \in Responses :
    p.pc = "auth.signin" =>
      \A o \in {OpResume(M("A"), p.op, p.pc, "ok", data, "")} :
        \A later \in {now, now + ClockStep} :
          \A m2 \in {[o.m EXCEPT !.now = later]} :
            (o.done /\ m2.ticker /\ ~m2.inProgress /\ Refreshable(m2)) =>
               RefreshSent(autoRefreshTick(m2))

(* ------------------------------- C36 ---------------------------------- *)
\* obs without the registration of o
Without(obs, o) == SelectSeq(obs, LAMBDA x : x # o)

\* C36: the unsubscribe handle that subscribe returned removes exactly the
\* registration of its own observer and is idempotent: a second call, when that
\* observer is already gone, removes no other observer.
C36_UnsubscribeIdempotent ==
  \A o \in Subscribers :
    indexOf(observers["A"], o) # 0 =>
      /\ unsubscribe(observers["A"], o) = Without(observers["A"], o)
      /\ unsubscribe(unsubscribe(observers["A"], o), o) = Without(observers["A"], o)

(* ------------------------------- C37 ---------------------------------- *)
\* C37: initialize is idempotent: however many times it is called, including a
\* second call made while the constructor's call is still awaiting
\* loadSettings, exactly one storage-event listener is registered, at most one
\* timer is running, and _initialized is true once any call has resolved.
C37_InitializeIdempotent ==
  /\ listeners["A"] <= 1
  /\ timers["A"] <= 1
  /\ initialized["A"] => listeners["A"] = 1
  /\ \A p \in Suspended("A") :
       p.op = "initialize" =>
         \A ans \in Answers : \A data \in AnswerData(p, ans) :
           \A o \in {OpResume(M("A"), p.op, p.pc, ans, data, "")} :
             o.done => (o.m.initialized /\ o.m.listeners = 1 /\ o.m.timers <= 1)

(* ====================================================================== *)
(* index.ts: the dispatcher.  createClient builds one dispatch function    *)
(* whose makeRequest computes the Authorization header by calling the auth *)
(* client's getIdToken, and the auth client's _dispatch is that same       *)
(* function.  A suspended frame is [op, pc, auth]: op is who dispatched,   *)
(* pc what the frame awaits, auth the Authorization header of the request  *)
(* that is on the wire.                                                    *)
(* ====================================================================== *)
\* makeRequest frames followed inside one another before the model gives up
MaxDepth == 3

\* headers['Authorization'] = idToken ? `Bearer ${idToken}` : ''
Bearer(idToken) == IF idToken = "" THEN <<>> ELSE <<"Bearer", idToken>>

\* makeRequest(url, payload) of the frame at nesting `depth`, up to its first
\* await of the network: setHeadersAuthorizationBearer awaits getIdToken();
\* when getIdToken hands 'auth.refresh_token' to this._dispatch, that payload
\* enters makeRequest in turn.  wire: the requests given to httpx, in order;
\* deep: the deepest frame entered; pc: what the outer frame awaits.
RECURSIVE makeRequest(_, _, _)
makeRequest(m, action, depth) ==
  LET g == getIdTokenCall(m, TRUE)
  IN IF ~g.susp
     THEN [m |-> g.m, pc |-> "httpx", auth |-> Bearer(g.val), deep |-> depth,
           wire |-> <<[action |-> action, auth |-> Bearer(g.val)]>>]
     ELSE IF depth >= MaxDepth
     THEN [m |-> g.m, pc |-> "overrun", auth |-> <<>>, deep |-> depth + 1, wire |-> <<>>]
     ELSE LET r == makeRequest(g.m, "auth.refresh_token", depth + 1)
          IN [m |-> r.m, pc |-> IF r.pc = "httpx" THEN "auth.refresh_token" ELSE "overrun",
              auth |-> r.auth, deep |-> r.deep, wire |-> r.wire]

\* the interval callback, its refresh dispatched through makeRequest
tickRequest(m) ==
  LET o == autoRefreshTick(m)
  IN IF o.done
     THEN [m |-> o.m, pc |-> "", auth |-> <<>>, deep |-> 0, wire |-> <<>>]
     ELSE LET r == makeRequest(o.m, "auth.refresh_token", 1)
          IN [m |-> r.m, pc |-> IF r.pc = "httpx" THEN "auth.refresh_token" ELSE "overrun",
              auth |-> r.auth, deep |-> r.deep, wire |-> r.wire]

\* httpx's outcome as makeRequest returns it: a rejection is caught and
\* returned as ok:false
makeRequestAnswer(ans) == IF ans = "throw" THEN "fail" ELSE ans

\* the refresh request is answered: _refreshToken resumes, getIdToken returns,
\* and the frame that awaited the header (op "dispatch") gives its own request
\* to httpx; the timer's call (op "tick") ends there
refreshAnswered(m, op, ans, data) ==
  LET r == _refreshTokenResume(m, makeRequestAnswer(ans), data)
      idToken == getIdTokenResume(r.m, r.ok)
  IN IF op = "dispatch"
     THEN [m |-> r.m, pc |-> "httpx", auth |-> Bearer(idToken), deep |-> 1,
           wire |-> <<[action |-> "data", auth |-> Bearer(idToken)]>>]
     ELSE [m |-> r.m, pc |-> "", auth |-> <<>>, deep |-> 0, wire |-> <<>>]

\* tab A's client after createClient, useAuth() and a completed initialize over
\* a cached record that was valid (or absent) at construction
InitWire ==
  /\ now = StartTime
  /\ \E tk \in InitialTokens :
       /\ store = [token |-> tk, nonce |-> ""]
       /\ state = [t \in Tabs |-> IF t = "A" THEN [user_profile |-> tk.up, token |-> tk]
                                  ELSE [user_profile |-> "", token |-> Nil]]
  /\ observers = [t \in Tabs |-> <<>>]
  /\ ticker = [t \in Tabs |-> t = "A"]
  /\ timers = [t \in Tabs |-> IF t = "A" THEN 1 ELSE 0]
  /\ inProgress = [t \in Tabs |-> FALSE]
  /\ failed = [t \in Tabs |-> FALSE]
  /\ initialized = [t \in Tabs |-> t = "A"]
  /\ listeners = [t \in Tabs |-> IF t = "A" THEN 1 ELSE 0]
  /\ procs = [t \in Tabs |-> EmptyBag]
  /\ events = [t \in Tabs |-> <<>>]
  /\ made = 0
  /\ valid = <<>>

\* the frame [op, o.pc, o.auth] is suspended
Frame(op, o) == [op |-> op, pc |-> o.pc, auth |-> o.auth]

\* the application dispatches a payload: singlebase.dispatch({action: ...})
Dispatch(t) ==
  /\ made < MaxStimuli
  /\ made' = made + 1
  /\ Room(t) > 0
  /\ \E o \in {makeRequest(M(t), "data", 1)} :
        /\ o.pc # "overrun"
        /\ Commit(t, o.m)
        /\ procs' = [procs EXCEPT ![t] = @ (+) SetToBag({Frame("dispatch", o)})]
  /\ UNCHANGED <<now, observers, events, valid>>

\* a live interval timer fires
TickWire(t) ==
  /\ timers[t] > 0
  /\ \E o \in {tickRequest(M(t))} :
        /\ o.pc # "overrun"
        /\ (o.pc # "" => Room(t) > 0)
        /\ Commit(t, o.m)
        /\ procs' = [procs EXCEPT ![t] = IF o.pc = "" THEN @ ELSE @ (+) SetToBag({Frame("tick", o)})]
  /\ UNCHANGED <<now, observers, events, made, valid>>

\* the server answers the refresh request of frame p
AnswerRefresh(t, p, ans, data) ==
  /\ p \in Suspended(t) /\ p.pc = "auth.refresh_token"
  /\ data \in (IF ans = "ok" THEN Responses ELSE {Nil})
  /\ \E o \in {refreshAnswered(M(t), p.op, ans, data)} :
        /\ Commit(t, o.m)
        /\ procs' = [procs EXCEPT ![t] =
                       IF o.pc = "" THEN @ (-) SetToBag({p})
                       ELSE (@ (-) SetToBag({p})) (+) SetToBag({Frame(p.op, o)})]
  /\ UNCHANGED <<now, observers, events, made, valid>>

\* the server answers the request of frame p, which returns to its caller
AnswerRequest(t, p) ==
  /\ p \in Suspended(t) /\ p.pc = "httpx"
  /\ procs' = [procs EXCEPT ![t] = @ (-) SetToBag({p})]
  /\ UNCHANGED <<now, store, state, observers, ticker, timers, inProgress, failed,
                 initialized, listeners, events, made, valid>>

NextWire ==
  \/ Dispatch("A")
  \/ TickWire("A")
  \/ \E p \in Suspended("A"), ans \in Answers, data \in Responses \cup {Nil} :
        AnswerRefresh("A", p, ans, data)
  \/ \E p \in Suspended("A") : AnswerRequest("A", p)
  \/ Advance

SpecWire == InitWire /\ [][NextWire]_vars

(* ------------------------------- C38 ---------------------------------- *)
\* the 'auth.refresh_token' requests among those given to httpx
RefreshRequests(wire) == SelectSeq(wire, LAMBDA q : q.action = "auth.refresh_token")

\* C38: the mutual recursion between the dispatcher and the auth client
\* terminates: an outer dispatch enters at most one further makeRequest frame,
\* which is the refresh dispatch; that dispatch's own header computation issues
\* no further refresh and its request carries an empty Authorization header;
\* and after the refresh is answered the outer frame sends its own request and
\* no other refresh.
C38_RecursionTerminates ==
  /\ \A p \in Suspended("A") : p.pc = "auth.refresh_token" => p.auth = <<>>
  /\ \A o \in {makeRequest(M("A"), "data", 1)} :
       /\ o.deep <= 2 /\ o.pc # "overrun"
       /\ Len(RefreshRequests(o.wire)) <= 1
       /\ \A i \in 1..Len(o.wire) : o.wire[i].action = "auth.refresh_token" => o.wire[i].auth = <<>>
       /\ o.deep = 2 => (o.pc = "auth.refresh_token" /\ Len(o.wire) = 1 /\ o.m.inProgress)
  /\ \A p \in Suspended("A") :
       p.pc = "auth.refresh_token" =>
         \A ans \in Answers : \A data \in (IF ans = "ok" THEN Responses ELSE {Nil}) :
           \A o \in {refreshAnswered(M("A"), p.op, ans, data)} :
             RefreshRequests(o.wire) = <<>> /\ ~o.m.inProgress

\* an outer dispatch awaits its header while the refresh it caused is on the
\* wire with an empty Authorization header
C38_Witness ==
  /\ [op |-> "dispatch", pc |-> "auth.refresh_token", auth |-> <<>>] \in Suspended("A")
  /\ inProgress["A"]

(* ------------------------------- C39 ---------------------------------- *)
\* C39: every write of a token record to the persisted cache carries a
\* revision different from the revision of the record it replaces, also when
\* the two writes fall in the same millisecond, so that the revision comparison
\* of a sibling tab's listener never misses a replaced record.
C39_RevisionChanges ==
  \A p \in Suspended("A") : \A data \in AnswerData(p, "ok") :
    \A o \in {OpResume(M("A"), p.op, p.pc, "ok", data, "")} :
      (~store.token.nil /\ ~o.m.store.token.nil /\ o.m.store.token # store.token) =>
         /\ o.m.store.token.rev # store.token.rev
         /\ \A c \in {[m |-> M("B"), n |-> 0]} :
              _storageEventListener(c, [key |-> "ns", old |-> store.token.rev,
                                        new |-> o.m.store.token.rev])
                = _storageEventListenerAnyRev(c, [key |-> "ns", old |-> store.token.rev,
                                                  new |-> o.m.store.token.rev])

(* ------------------------------- C40 ---------------------------------- *)
\* C40: across the tabs that share one storage namespace at most one
\* 'auth.refresh_token' dispatch for the same refresh_token is outstanding at a
\* time (every record of the run with a refresh_token holds "r1"): a tab whose
\* timer ticks on the expired cached record does not exchange it while the
\* other tab's exchange of it is outstanding.
C40_OneRefreshAcrossTabs ==
  /\ Outstanding("A", "auth.refresh_token") + Outstanding("B", "auth.refresh_token") <= 1
  /\ (Outstanding("A", "auth.refresh_token") > 0 /\ timers["B"] > 0) =>
        ~RefreshSent(autoRefreshTick(M("B")))

====
